---- MODULE Spec2Model ----
(***************************************************************************)
(* Model of the clinic appointment application (app.py, with the           *)
(* mover_cita variants of app_v2.py and app_v3.py).                        *)
(*                                                                         *)
(* The record store is modelled by its tables; a request handler is one    *)
(* action (the whole handler runs between two store states), except in     *)
(* the interleaving specification, where a handler is split at its store   *)
(* calls.  A date 'YYYY-MM-DD' is the ordinal of a day in a window of      *)
(* consecutive calendar days starting on Friday 2024-01-05; ISO date       *)
(* strings compare as these ordinals do.                                   *)
(***************************************************************************)
EXTENDS Integers, Sequences, FiniteSets, TLC

\* ---------------------------------------------------------------- bounds
MaxFecha == 3      \* days in the calendar window: Fri, Sat, Sun (then Mon, ...)
MaxCitas == 2      \* rows the citas table ever receives
MaxBloqueadas == 1 \* dates blocked at once by uninterrupted block requests
MaxBloqueos == 2   \* rows the fechas_bloqueadas table holds at once
MaxHilos == 2      \* block requests in flight at once
MaxPagos == 2      \* rows the pagos table holds at once
MaxSeguimientos == 1   \* rows the seguimiento table ever receives
MaxAnuncios == 3       \* names ever put on the announcement queue
MaxOyentes == 2        \* connections to /stream at once
MaxUsuarios == 2       \* rows the usuarios table holds at once
MaxSaltos == 4         \* redirects a browser follows before it gives up

\* ------------------------------------------------------------ the store
VARIABLES
    citas,              \* table citas: rows [id, nombre, fecha, pagado, orden, fue_llamado]
    seq_citas,          \* last id handed out by the citas table
    fechas_bloqueadas,  \* table fechas_bloqueadas: number of rows per fecha
    configuracion,      \* table configuracion: clave -> valor (present keys only)
    pagos,              \* table pagos: number of payment rows per cita_id
    seguimiento,        \* table seguimiento: number of rows
    hilos,              \* block requests in flight: what each one has read
    announcement_queue, \* the Queue of names waiting for the /stream consumer
    encolados,          \* every name put on the queue, in the order of the puts
    entregas,           \* every name the stream has yielded as a data frame
    frame,              \* the last frame the stream has yielded
    oyentes,            \* the /stream connections: whether the generator of
                        \* each one is running, the names and the last frame
                        \* it has yielded
    quien,              \* the connection that yielded each name of entregas
    usuarios,           \* table usuarios: id -> [username, role], or no row
    navegador,          \* a browser: the role in its session cookie, the
                        \* route it was last sent to, whether it still has
                        \* that redirect to follow, and how many it followed
    vista,              \* the full dates the booking form last showed, and
                        \* the tables as they were then
    last                \* the response to the last request handled

\* the waiting room: the queue and what has gone through it
sala == <<announcement_queue, encolados, entregas, frame, oyentes, quien>>

\* the accounts: the users and a session
cuentas == <<usuarios, navegador>>

vars == <<citas, seq_citas, fechas_bloqueadas, configuracion, pagos, seguimiento,
          hilos, sala, cuentas, vista, last>>

Fechas == 1..MaxFecha
Nombres == {"Ana", "Luz"}

\* date.today(): the second day of the window, so that day 1 is in the past
Hoy == 2

\* datetime.strptime(f, '%Y-%m-%d').weekday(): Monday = 0 ... Sunday = 6
weekday(f) == (f + 3) % 7

ToSet(s) == {s[i] : i \in DOMAIN s}

\* --------------------------------------------------------- configuration
dias == <<"lunes", "martes", "miercoles", "jueves", "viernes", "sabado">>

mapa_dias == [d \in 0..5 |-> dias[d + 1]]

clave_limite(nombre_dia) == "max_pacientes_" \o nombre_dia

ClavesLimite == {clave_limite(d) : d \in ToSet(dias)}

\* config.setdefault(...) of get_configuracion
valor_por_defecto(k) ==
    IF k \in {"bloquear_sabados", "bloquear_domingos"} THEN "false" ELSE "999"

\* get_configuracion(): the stored pairs, or {} when the read raises, then the
\* defaults for the keys that are missing
get_configuracion(caidas) ==
    LET config == IF "configuracion" \in caidas
                  THEN [k \in {} |-> ""]
                  ELSE configuracion
        claves == DOMAIN config \cup {"bloquear_sabados", "bloquear_domingos"}
                                \cup ClavesLimite
    IN [k \in claves |-> IF k \in DOMAIN config THEN config[k]
                         ELSE valor_por_defecto(k)]

\* get_configuracion() of app_v2.py: the stored pairs and the defaults of the
\* two weekend flags; when the read raises, the two defaults alone
get_configuracion_v2(caidas) ==
    LET flags == {"bloquear_sabados", "bloquear_domingos"}
    IN IF "configuracion" \in caidas
       THEN [k \in flags |-> "false"]
       ELSE [k \in DOMAIN configuracion \cup flags |->
                IF k \in DOMAIN configuracion THEN configuracion[k] ELSE "false"]

\* int(s): the numerals a limit can hold here; anything else raises ValueError
Numeros == (0..MaxCitas) \cup {999}

es_numero(s) == \E n \in Numeros : ToString(n) = s

int(s) == CHOOSE n \in Numeros : ToString(n) = s

\* ------------------------------------------------------- store failures
\* The store calls of one request that raise.  At most one kind of call is
\* down during a request.
Llamadas == {"configuracion", "fechas_bloqueadas", "citas_select",
             "citas_write", "pagos", "seguimiento_write"}

\* The ways requests.post fails inside the two notification helpers: with a
\* RequestException that carries no response (Telegram, WhatsApp), or with one
\* that carries a response whose body is not JSON (WhatsApp).
Avisos == {"telegram", "whatsapp", "whatsapp_con_respuesta"}

Caidas == {{}} \cup {{l} : l \in Llamadas}

\* ------------------------------------------------------------- sessions
\* The session cookie of a request: no 'usuario' key, or a role.
Roles == {"anon", "admin", "secretaria"}

\* ------------------------------------------------------------ responses
\* What a handler leaves behind: the citas table, the messages it flashed,
\* and how it ended (redirect, render, or an exception nobody catches).
Resultado(c, fl, fin) == [citas |-> c, flashes |-> fl, fin |-> fin]

Respuesta(op, r) == [op |-> op, flashes |-> r.flashes, fin |-> r.fin]

\* rows of fechas_bloqueadas as the handlers read them: the set of dates
Bloqueadas == {f \in Fechas : fechas_bloqueadas[f] > 0}

TotalBloqueos == LET RECURSIVE suma(_)
                     suma(n) == IF n = 0 THEN 0
                                ELSE fechas_bloqueadas[n] + suma(n - 1)
                 IN suma(MaxFecha)

\* leer_bloqueadas with the rows dropped: the read always comes back empty
leer_bloqueadas_sin_filas(caidas) == {}

\* select("fecha") on fechas_bloqueadas inside try/except: empty when it raises
leer_bloqueadas(caidas) ==
    IF "fechas_bloqueadas" \in caidas THEN {} ELSE Bloqueadas

\* ------------------------------------------------------- get_dias_llenos
conteo(f) == Cardinality({c \in citas : c.fecha = f})

limite_alcanzado(config, f) ==
    LET clave == clave_limite(mapa_dias[weekday(f)])
        valor == IF clave \in DOMAIN config THEN config[clave] ELSE "999"
    IN es_numero(valor) /\ conteo(f) >= int(valor)

\* get_dias_llenos that goes on appending to the list of the call before
get_dias_llenos_acumula(config, caidas) ==
    vista.dias_llenos \o
    SelectSeq([i \in 1..MaxFecha |-> i],
              LAMBDA f : /\ \E c \in citas : c.fecha = f
                         /\ weekday(f) \in DOMAIN mapa_dias
                         /\ limite_alcanzado(config, f))

RECURSIVE hasta_el_primer_error(_, _)
\* the dates of fs up to the first one whose limit is not a number
hasta_el_primer_error(config, fs) ==
    IF fs = << >> THEN << >>
    ELSE LET f == Head(fs)
             clave == clave_limite(mapa_dias[weekday(f)])
         IN IF weekday(f) \in DOMAIN mapa_dias /\ clave \in DOMAIN config
               /\ ~es_numero(config[clave])
            THEN << >>
            ELSE <<f>> \o hasta_el_primer_error(config, Tail(fs))

\* get_dias_llenos without the inner try: the first limit that is not a
\* number ends the loop, and what was collected until then is returned
get_dias_llenos_corta(config, caidas) ==
    IF "citas_select" \in caidas THEN << >>
    ELSE SelectSeq(hasta_el_primer_error(config,
                        SelectSeq([i \in 1..MaxFecha |-> i],
                                  LAMBDA f : conteo(f) > 0)),
                   LAMBDA f : /\ weekday(f) \in DOMAIN mapa_dias
                              /\ limite_alcanzado(config, f))

\* The dates that hold at least one cita, ascending, whose count reaches the
\* limit of their weekday; what was collected (nothing) when the select raises.
get_dias_llenos(config, caidas) ==
    IF "citas_select" \in caidas THEN << >>
    ELSE SelectSeq([i \in 1..MaxFecha |-> i],
                   LAMBDA f : /\ conteo(f) > 0
                              /\ weekday(f) \in DOMAIN mapa_dias
                              /\ limite_alcanzado(config, f))

\* The route /dias_llenos: the count of each date from today on, ascending.
ruta_dias_llenos ==
    LET desde_hoy == SelectSeq([i \in 1..MaxFecha |-> i],
                               LAMBDA f : f >= Hoy /\ conteo(f) > 0)
    IN [i \in DOMAIN desde_hoy |->
            [fecha |-> desde_hoy[i], cantidad |-> conteo(desde_hoy[i])]]

\* -------------------------------------------------------- notifications
\* send_telegram_message with its try/except taken away
send_telegram_message_sin_except(caidas) ==
    IF "telegram" \in caidas THEN "lanza" ELSE "vuelve"

\* send_telegram_message: the RequestException is caught and printed
send_telegram_message(caidas) == "vuelve"

\* send_whatsapp_reminder: the RequestException is caught; the handler then
\* prints e.response.json() when the exception carries a response, and that
\* call raises out of the helper when the body is not JSON
send_whatsapp_reminder(caidas) ==
    IF "whatsapp_con_respuesta" \in caidas THEN "lanza" ELSE "vuelve"

\* The notifications sit inside the try of the handler, after the store write
\* (and, except in eliminar_cita, after the success flash): one that raises
\* lands in the handler's except, which flashes its error message.
tras_notificar(salidas, r, fin) ==
    IF "lanza" \in salidas
    THEN Resultado(r.citas, r.flashes \o <<"error">>, fin)
    ELSE r

\* ------------------------------------------------------------- new rows
\* No insert of a cita names the column orden: the row holds whatever the
\* column default is (NULL or one fixed number), written OrdenPorDefecto.
OrdenPorDefecto == -1

NuevaCita(nombre, fecha) ==
    [id |-> seq_citas + 1, nombre |-> nombre, fecha |-> fecha, pagado |-> FALSE,
     orden |-> OrdenPorDefecto, fue_llamado |-> FALSE]

\* A request that inserts a cita needs a free row of the bounded table.
CabeCita(r) == Cardinality(r.citas) > Cardinality(citas) => seq_citas < MaxCitas

Responder(op, r) ==
    /\ CabeCita(r)
    /\ citas' = r.citas
    /\ seq_citas' = IF Cardinality(r.citas) > Cardinality(citas)
                    THEN seq_citas + 1 ELSE seq_citas
    /\ last' = Respuesta(op, r)

\* --------------------------------------------------- registrar_cita POST
\* registrar_cita_POST without its two weekend tests
registrar_cita_POST_sin_fin_de_semana(nombre, fecha, caidas) ==
    LET config == get_configuracion(caidas)
        fechas_bloqueadas_manualmente == leer_bloqueadas(caidas)
        dias_llenos == ToSet(get_dias_llenos(config, caidas))
    IN  IF fecha \in fechas_bloqueadas_manualmente
        THEN Resultado(citas, <<"bloqueada">>, "excepcion")
        ELSE IF fecha \in dias_llenos
        THEN Resultado(citas, <<"llena">>, "excepcion")
        ELSE IF "citas_write" \in caidas
        THEN Resultado(citas, <<"error">>, "render")
        ELSE Resultado(citas \cup {NuevaCita(nombre, fecha)}, <<"ok">>, "redirect")

registrar_cita_POST(nombre, fecha, caidas) ==
    LET config == get_configuracion(caidas)
        fechas_bloqueadas_manualmente == leer_bloqueadas(caidas)
        dias_llenos == ToSet(get_dias_llenos(config, caidas))
        bloqueadas_2 == leer_bloqueadas(caidas)
    IN  \* first validation block: each branch renders form.html with the
        \* local fechas_bloqueadas, which is assigned only further down
        IF config["bloquear_sabados"] = "true" /\ weekday(fecha) = 5
        THEN Resultado(citas, <<"sabado">>, "excepcion")
        ELSE IF config["bloquear_domingos"] = "true" /\ weekday(fecha) = 6
        THEN Resultado(citas, <<"domingo">>, "excepcion")
        ELSE IF fecha \in fechas_bloqueadas_manualmente
        THEN Resultado(citas, <<"bloqueada">>, "excepcion")
        ELSE IF fecha \in dias_llenos
        THEN Resultado(citas, <<"llena">>, "excepcion")
        \* second validation block, after the re-read
        ELSE IF config["bloquear_sabados"] = "true" /\ weekday(fecha) = 5
        THEN Resultado(citas, <<"sabado">>, "redirect")
        ELSE IF config["bloquear_domingos"] = "true" /\ weekday(fecha) = 6
        THEN Resultado(citas, <<"domingo">>, "redirect")
        ELSE IF fecha \in bloqueadas_2
        THEN Resultado(citas, <<"bloqueada">>, "redirect")
        ELSE IF "citas_write" \in caidas
        THEN Resultado(citas, <<"error">>, "render")
        ELSE tras_notificar(
                 {send_whatsapp_reminder(caidas), send_telegram_message(caidas)},
                 Resultado(citas \cup {NuevaCita(nombre, fecha)}, <<"ok">>,
                           "redirect"),
                 "render")

registrar_cita ==
    \E nombre \in Nombres, fecha \in Fechas, caidas \in {{}} :
        /\ Responder("registrar_cita", registrar_cita_POST(nombre, fecha, caidas))
        /\ UNCHANGED <<cuentas, sala, vista, fechas_bloqueadas, configuracion, pagos, seguimiento, hilos>>

\* The public booking while a notification service is failing.
registrar_cita_aviso_caido ==
    \E nombre \in Nombres, fecha \in Fechas, caidas \in {{a} : a \in Avisos} :
        /\ Responder("registrar_cita", registrar_cita_POST(nombre, fecha, caidas))
        /\ UNCHANGED <<cuentas, sala, vista, fechas_bloqueadas, configuracion, pagos,
                       seguimiento, hilos>>

\* ---------------------------------------------------- registrar_cita GET
\* The form is rendered with the full dates get_dias_llenos() returns for the
\* configuration it reads itself.
registrar_cita_GET ==
    /\ vista' = [dias_llenos |-> get_dias_llenos(get_configuracion({}), {}),
                 citas |-> citas, configuracion |-> configuracion]
    /\ last' = [op |-> "registrar_cita_GET", flashes |-> << >>, fin |-> "render"]
    /\ UNCHANGED <<cuentas, citas, seq_citas, fechas_bloqueadas, configuracion, pagos,
                   seguimiento, hilos, sala>>

\* ------------------------------------------------------- role_required
\* role_required that looks at the login alone and not at the role
role_required_solo_sesion(roles, rol, cuerpo) ==
    IF rol = "anon" THEN Resultado(citas, <<"login">>, "redirect") ELSE cuerpo

\* The decorator: the body runs only for a session whose role is allowed.
role_required(roles, rol, cuerpo) ==
    IF rol = "anon" THEN Resultado(citas, <<"login">>, "redirect")
    ELSE IF rol \notin roles THEN Resultado(citas, <<"sin_permiso">>, "redirect")
    ELSE cuerpo

\* -------------------------------------------------- configuracion POST
\* The limits the form can carry: every weekday field holds the same text,
\* or every field is left empty.
ValoresForm == {"", "abc"} \cup {ToString(n) : n \in 0..MaxCitas}

\* The pairs the handler upserts.  The precio_<servicio> pairs it also writes
\* are read by no handler modelled here and are left out of the table.
config_updates(sab, dom, limite) ==
    [k \in {"bloquear_sabados", "bloquear_domingos"} \cup ClavesLimite |->
        IF k = "bloquear_sabados" THEN (IF sab THEN "true" ELSE "false")
        ELSE IF k = "bloquear_domingos" THEN (IF dom THEN "true" ELSE "false")
        ELSE IF limite # "" THEN limite ELSE "999"]

upsert(tabla, filas) ==
    [k \in DOMAIN tabla \cup DOMAIN filas |->
        IF k \in DOMAIN filas THEN filas[k] ELSE tabla[k]]

configuracion_POST ==
    \E rol \in Roles, sab \in BOOLEAN, dom \in BOOLEAN,
       limite \in ValoresForm, caidas \in {{}} :
        LET r == role_required({"admin"}, rol,
                    IF "configuracion" \in caidas
                    THEN Resultado(citas, <<"error">>, "redirect")
                    ELSE Resultado(citas, <<"ok">>, "redirect"))
        IN /\ configuracion' =
                 IF r.flashes = <<"ok">>
                 THEN upsert(configuracion, config_updates(sab, dom, limite))
                 ELSE configuracion
           /\ last' = Respuesta("configuracion", r)
           /\ UNCHANGED <<cuentas, sala, vista, citas, seq_citas, fechas_bloqueadas, pagos, seguimiento, hilos>>

\* The configuration form of app_v2.py: any logged-in session, and the two
\* weekend flags only.
configuracion_v2_POST ==
    \E rol \in Roles, sab \in BOOLEAN, dom \in BOOLEAN :
        LET r == IF rol = "anon" THEN Resultado(citas, <<"login">>, "redirect")
                 ELSE Resultado(citas, <<"ok">>, "redirect")
            filas == [k \in {"bloquear_sabados", "bloquear_domingos"} |->
                        IF (k = "bloquear_sabados" /\ sab) \/
                           (k = "bloquear_domingos" /\ dom)
                        THEN "true" ELSE "false"]
        IN /\ configuracion' =
                 IF r.flashes = <<"ok">> THEN upsert(configuracion, filas)
                 ELSE configuracion
           /\ last' = Respuesta("configuracion_v2", r)
           /\ UNCHANGED <<cuentas, sala, vista, citas, seq_citas, fechas_bloqueadas, pagos,
                          seguimiento, hilos>>

\* ---------------------------------------------------- bloquear_fecha
\* One block request run without interruption: select the rows of the date,
\* then insert a row when there is none.
bloquear_POST(op, rol, fecha, caidas) ==
    LET entra == rol # "anon"
        existe == fechas_bloqueadas[fecha] > 0
        inserta == entra /\ caidas = {} /\ ~existe
        r == IF ~entra THEN Resultado(citas, <<"login">>, "redirect")
             ELSE IF caidas # {} THEN Resultado(citas, <<"error">>, "redirect")
             ELSE IF existe THEN Resultado(citas, <<"ya_bloqueada">>, "redirect")
             ELSE Resultado(citas, <<"ok">>, "redirect")
    IN /\ inserta => Cardinality(Bloqueadas) < MaxBloqueadas
       /\ fechas_bloqueadas' =
             IF inserta
             THEN [fechas_bloqueadas EXCEPT ![fecha] = @ + 1]
             ELSE fechas_bloqueadas
       /\ last' = Respuesta(op, r)
       /\ UNCHANGED <<cuentas, sala, vista, citas, seq_citas, configuracion, pagos, seguimiento, hilos>>

bloquear_fecha ==
    \E rol \in Roles, fecha \in Fechas, caidas \in {{}, {"fechas_bloqueadas"}} :
        bloquear_POST("bloquear_fecha", rol, fecha, caidas)

secretaria_bloquear_fecha ==
    \E rol \in Roles, fecha \in Fechas, caidas \in {{}, {"fechas_bloqueadas"}} :
        bloquear_POST("secretaria_bloquear_fecha", rol, fecha, caidas)

\* desbloquear(id): delete the row with that id; fecha is the date of the row
desbloquear_POST(op, rol, fecha) ==
    /\ fechas_bloqueadas[fecha] > 0
    /\ fechas_bloqueadas' =
          IF rol = "anon" THEN fechas_bloqueadas
          ELSE [fechas_bloqueadas EXCEPT ![fecha] = @ - 1]
    /\ last' = Respuesta(op, Resultado(citas,
                                 IF rol = "anon" THEN << >> ELSE <<"ok">>,
                                 "redirect"))
    /\ UNCHANGED <<cuentas, sala, vista, citas, seq_citas, configuracion, pagos, seguimiento, hilos>>

desbloquear ==
    \E rol \in Roles, fecha \in Fechas : desbloquear_POST("desbloquear", rol, fecha)

secretaria_desbloquear ==
    \E rol \in Roles, fecha \in Fechas :
        desbloquear_POST("secretaria_desbloquear", rol, fecha)

\* ------------------------------------- registrar_cita_admin / _secretaria
\* The weekend flags only add a warning; the full dates are not computed.
\* The blocked dates read inside try/except are empty when the read raises.
registrar_cita_staff_POST(rol, nombre, fecha, caidas) ==
    LET config == get_configuracion(caidas)
        bloqueadas == leer_bloqueadas(caidas)
        avisos ==
            (IF config["bloquear_sabados"] = "true" /\ weekday(fecha) = 5
             THEN <<"aviso_sabado">> ELSE << >>)
            \o (IF config["bloquear_domingos"] = "true" /\ weekday(fecha) = 6
                THEN <<"aviso_domingo">> ELSE << >>)
    IN role_required({"admin", "secretaria"}, rol,
          IF fecha \in bloqueadas
          THEN Resultado(citas, avisos \o <<"bloqueada">>, "redirect")
          ELSE IF "citas_write" \in caidas
          THEN Resultado(citas, avisos \o <<"error">>, "redirect")
          ELSE tras_notificar(
                   {send_telegram_message(caidas)},
                   Resultado(citas \cup {NuevaCita(nombre, fecha)},
                             avisos \o <<"ok">>, "redirect"),
                   "redirect"))

registrar_cita_admin_POST(rol, nombre, fecha, caidas) ==
    registrar_cita_staff_POST(rol, nombre, fecha, caidas)

registrar_cita_secretaria_POST(rol, nombre, fecha, caidas) ==
    registrar_cita_staff_POST(rol, nombre, fecha, caidas)

registrar_cita_admin ==
    \E rol \in Roles, nombre \in Nombres, fecha \in Fechas,
       caidas \in {{}} :
        /\ Responder("registrar_cita_admin",
                     registrar_cita_admin_POST(rol, nombre, fecha, caidas))
        /\ UNCHANGED <<cuentas, sala, vista, fechas_bloqueadas, configuracion, pagos, seguimiento, hilos>>

registrar_cita_secretaria ==
    \E rol \in Roles, nombre \in Nombres, fecha \in Fechas,
       caidas \in {{}} :
        /\ Responder("registrar_cita_secretaria",
                     registrar_cita_secretaria_POST(rol, nombre, fecha, caidas))
        /\ UNCHANGED <<cuentas, sala, vista, fechas_bloqueadas, configuracion, pagos, seguimiento, hilos>>

\* ------------------------------------------------- seguimiento_paciente
Ids == {c.id : c \in citas}

fila(id) == CHOOSE c \in citas : c.id = id

\* cita_existente with the rows dropped: the lookup always comes back empty
cita_existente_sin_filas(paciente_nombre, nueva_fecha) == {}

\* select("id").eq("nombre", ...).eq("fecha", ...) on citas
cita_existente(paciente_nombre, nueva_fecha) ==
    {c \in citas : c.nombre = paciente_nombre /\ c.fecha = nueva_fecha}

\* The whole body runs inside one try: any store call that raises ends in the
\* error flash.  The blocked dates come first, then the weekend flags, then
\* the patient's own citas of the date; the full dates are not computed.
seguimiento_paciente_POST(rol, cita_id, necesita_cita, nueva_fecha, caidas) ==
    LET config == get_configuracion(caidas)
        paciente_nombre == fila(cita_id).nombre
    IN role_required({"admin", "secretaria"}, rol,
          IF "citas_select" \in caidas \/ cita_id \notin Ids
          THEN Resultado(citas, <<"error">>, "redirect")
          ELSE IF ~necesita_cita
          THEN IF "seguimiento_write" \in caidas
               THEN Resultado(citas, <<"error">>, "redirect")
               ELSE tras_notificar(
                        {send_telegram_message(caidas)},
                        Resultado(citas, <<"ok_sin_cita">>, "redirect"),
                        "redirect")
          ELSE IF "fechas_bloqueadas" \in caidas
          THEN Resultado(citas, <<"error">>, "redirect")
          ELSE IF nueva_fecha \in Bloqueadas
          THEN Resultado(citas, <<"bloqueada">>, "redirect")
          ELSE IF config["bloquear_sabados"] = "true" /\ weekday(nueva_fecha) = 5
          THEN Resultado(citas, <<"sabado">>, "redirect")
          ELSE IF config["bloquear_domingos"] = "true" /\ weekday(nueva_fecha) = 6
          THEN Resultado(citas, <<"domingo">>, "redirect")
          ELSE IF cita_existente(paciente_nombre, nueva_fecha) # {}
          THEN Resultado(citas, <<"duplicada">>, "redirect")
          ELSE IF "citas_write" \in caidas
          THEN Resultado(citas, <<"error">>, "redirect")
          \* the cita is in the table when the seguimiento insert raises
          ELSE IF "seguimiento_write" \in caidas
          THEN Resultado(citas \cup {NuevaCita(paciente_nombre, nueva_fecha)},
                         <<"error">>, "redirect")
          ELSE tras_notificar(
                   {send_telegram_message(caidas)},
                   Resultado(citas \cup {NuevaCita(paciente_nombre, nueva_fecha)},
                             <<"ok">>, "redirect"),
                   "redirect"))

\* The seguimiento row is inserted on both branches that reach the success
\* flash.
seguimiento_escrito(r) ==
    r.flashes # << >> /\ r.flashes[1] \in {"ok", "ok_sin_cita"}

seguimiento_paciente ==
    \E rol \in Roles, cita_id \in 1..MaxCitas, necesita_cita \in BOOLEAN,
       nueva_fecha \in Fechas, caidas \in {{}} :
        LET r == seguimiento_paciente_POST(rol, cita_id, necesita_cita,
                                           nueva_fecha, caidas)
            escribe == seguimiento_escrito(r)
        IN /\ escribe => seguimiento < MaxSeguimientos
           /\ Responder("seguimiento_paciente", r)
           /\ seguimiento' = IF escribe THEN seguimiento + 1 ELSE seguimiento
           /\ UNCHANGED <<cuentas, sala, vista, fechas_bloqueadas, configuracion, pagos, hilos>>

\* ----------------------------------------- mover_cita (app.py, both panels)
mover_fecha(id, nueva_fecha) ==
    {IF c.id = id THEN [c EXCEPT !.fecha = nueva_fecha] ELSE c : c \in citas}

\* The first read of the blocked dates is outside any try.  The first test is
\* on the union of the blocked and the full dates; the weekend flags follow.
\* The payment lookup sits before the update in both handlers.
mover_POST(rol, id, nueva_fecha, caidas) ==
    LET config == get_configuracion(caidas)
        fechas_bloqueadas_manualmente == leer_bloqueadas(caidas)
        dias_llenos == ToSet(get_dias_llenos(get_configuracion(caidas), caidas))
        fechas_no_disponibles == fechas_bloqueadas_manualmente \cup dias_llenos
    IN  IF rol = "anon" THEN Resultado(citas, <<"login">>, "redirect")
        ELSE IF "fechas_bloqueadas" \in caidas
        THEN Resultado(citas, << >>, "excepcion")
        ELSE IF nueva_fecha \in fechas_no_disponibles
        THEN Resultado(citas, <<"llena_o_bloqueada">>, "redirect")
        ELSE IF config["bloquear_sabados"] = "true" /\ weekday(nueva_fecha) = 5
        THEN Resultado(citas, <<"sabado">>, "redirect")
        ELSE IF config["bloquear_domingos"] = "true" /\ weekday(nueva_fecha) = 6
        THEN Resultado(citas, <<"domingo">>, "redirect")
        ELSE IF nueva_fecha \in Bloqueadas
        THEN Resultado(citas, <<"bloqueada">>, "redirect")
        ELSE IF "pagos" \in caidas
        THEN Resultado(citas, <<"error_pagos">>, "redirect")
        ELSE IF pagos[id] > 0
        THEN Resultado(citas, <<"tiene_pago">>, "redirect")
        ELSE IF "citas_select" \in caidas \/ "citas_write" \in caidas
                \/ id \notin Ids
        THEN Resultado(citas, <<"error">>, "redirect")
        ELSE tras_notificar(
                 {send_telegram_message(caidas)},
                 Resultado(mover_fecha(id, nueva_fecha), <<"ok">>, "redirect"),
                 "redirect")

mover_cita_POST(rol, id, nueva_fecha, caidas) ==
    mover_POST(rol, id, nueva_fecha, caidas)

secretaria_mover_cita_POST(rol, id, nueva_fecha, caidas) ==
    mover_POST(rol, id, nueva_fecha, caidas)

mover_cita ==
    \E rol \in Roles, id \in 1..MaxCitas, nueva_fecha \in Fechas,
       caidas \in {{}, {"pagos"}} :
        /\ Responder("mover_cita", mover_cita_POST(rol, id, nueva_fecha, caidas))
        /\ UNCHANGED <<cuentas, sala, vista, fechas_bloqueadas, configuracion, pagos, seguimiento, hilos>>

secretaria_mover_cita ==
    \E rol \in Roles, id \in 1..MaxCitas, nueva_fecha \in Fechas,
       caidas \in {{}, {"pagos"}} :
        /\ Responder("secretaria_mover_cita",
                     secretaria_mover_cita_POST(rol, id, nueva_fecha, caidas))
        /\ UNCHANGED <<cuentas, sala, vista, fechas_bloqueadas, configuracion, pagos, seguimiento, hilos>>

\* ------------------------------------------------- mover_cita (app_v2.py)
\* No payment lookup and no full dates; the update names the row by id and
\* succeeds when no row has that id.
mover_cita_v2_POST(rol, id, nueva_fecha, caidas) ==
    LET config == get_configuracion(caidas)
    IN  IF rol = "anon" THEN Resultado(citas, <<"login">>, "redirect")
        ELSE IF "fechas_bloqueadas" \in caidas
        THEN Resultado(citas, << >>, "excepcion")
        ELSE IF config["bloquear_sabados"] = "true" /\ weekday(nueva_fecha) = 5
        THEN Resultado(citas, <<"sabado">>, "redirect")
        ELSE IF config["bloquear_domingos"] = "true" /\ weekday(nueva_fecha) = 6
        THEN Resultado(citas, <<"domingo">>, "redirect")
        ELSE IF nueva_fecha \in Bloqueadas
        THEN Resultado(citas, <<"bloqueada">>, "redirect")
        ELSE IF "citas_write" \in caidas
        THEN Resultado(citas, <<"error">>, "redirect")
        ELSE Resultado(mover_fecha(id, nueva_fecha), <<"ok">>, "redirect")

mover_cita_v2 ==
    \E rol \in Roles, id \in Ids, nueva_fecha \in Fechas, caidas \in {{}} :
        /\ Responder("mover_cita_v2", mover_cita_v2_POST(rol, id, nueva_fecha, caidas))
        /\ UNCHANGED <<cuentas, sala, vista, fechas_bloqueadas, configuracion, pagos, seguimiento, hilos>>

\* ------------------------------------------------- mover_cita (app_v3.py)
\* The payment lookup comes first; the POST branch then reads nueva_fecha
\* before the handler assigns it.
mover_cita_v3_POST(rol, id, nueva_fecha, caidas) ==
    IF rol = "anon" THEN Resultado(citas, <<"login">>, "redirect")
    ELSE IF "fechas_bloqueadas" \in caidas
    THEN Resultado(citas, << >>, "excepcion")
    ELSE IF "pagos" \in caidas
    THEN Resultado(citas, <<"error_pagos">>, "redirect")
    ELSE IF pagos[id] > 0
    THEN Resultado(citas, <<"tiene_pago">>, "redirect")
    ELSE Resultado(citas, << >>, "excepcion")

mover_cita_v3 ==
    \E rol \in Roles, id \in 1..MaxCitas, nueva_fecha \in Fechas,
       caidas \in {{}, {"pagos"}} :
        /\ Responder("mover_cita_v3", mover_cita_v3_POST(rol, id, nueva_fecha, caidas))
        /\ UNCHANGED <<cuentas, sala, vista, fechas_bloqueadas, configuracion, pagos, seguimiento, hilos>>

\* -------------------------------------------------------- registrar_pago
TotalPagos == LET RECURSIVE suma(_)
                  suma(n) == IF n = 0 THEN 0 ELSE pagos[n] + suma(n - 1)
              IN suma(MaxCitas)

\* insert the payment row, then set the cita's pagado; one try around both
registrar_pago ==
    \E rol \in Roles, cita_id \in Ids, caidas \in {{}, {"pagos"}, {"citas_write"}} :
        LET entra == rol # "anon"
            inserta == entra /\ "pagos" \notin caidas
            marca == inserta /\ "citas_write" \notin caidas
        IN /\ inserta => TotalPagos < MaxPagos
           /\ pagos' = IF inserta THEN [pagos EXCEPT ![cita_id] = @ + 1] ELSE pagos
           /\ citas' = IF marca
                       THEN {IF c.id = cita_id THEN [c EXCEPT !.pagado = TRUE] ELSE c
                             : c \in citas}
                       ELSE citas
           /\ last' = Respuesta("registrar_pago",
                         Resultado(citas, IF ~entra THEN <<"login">>
                                          ELSE IF marca THEN <<"ok">> ELSE <<"error">>,
                                   "redirect"))
           /\ UNCHANGED <<cuentas, sala, vista, seq_citas, fechas_bloqueadas, configuracion, seguimiento, hilos>>

\* The try of a payment form with the store working: the insert of the
\* payment row, then the update of pagado by the id of the cita.  No test on
\* the payments the cita already has comes before the insert.
cobro(op, entra, rechazo, cita_id) ==
    /\ entra => TotalPagos < MaxPagos
    /\ pagos' = IF entra THEN [pagos EXCEPT ![cita_id] = @ + 1] ELSE pagos
    /\ citas' = IF entra
                THEN {IF c.id = cita_id THEN [c EXCEPT !.pagado = TRUE] ELSE c
                      : c \in citas}
                ELSE citas
    /\ last' = Respuesta(op, Resultado(citas, IF entra THEN <<"ok">> ELSE <<rechazo>>,
                                       "redirect"))
    /\ UNCHANGED <<cuentas, sala, vista, seq_citas, fechas_bloqueadas,
                   configuracion, seguimiento, hilos>>

\* role_required('secretaria') in front of the form
secretaria_registrar_pago ==
    \E rol \in Roles, cita_id \in Ids :
        cobro("secretaria_registrar_pago", rol = "secretaria",
              IF rol = "anon" THEN "login" ELSE "sin_permiso", cita_id)

\* any logged-in session
admin_registrar_pago ==
    \E rol \in Roles, cita_id \in Ids :
        cobro("admin_registrar_pago", rol # "anon", "login", cita_id)

\* eliminar_pago by an admin, the store working.  The payment row is read
\* with single(), which raises when there is none (cita_id names the cita of
\* the row asked for); then the row is deleted, pagado of its cita is set to
\* False, and the Telegram message is sent.
eliminar_pago ==
    \E rol \in Roles, cita_id \in 1..MaxCitas :
        LET entra == rol = "admin"
            borra == entra /\ pagos[cita_id] > 0
        IN /\ pagos' = IF borra THEN [pagos EXCEPT ![cita_id] = @ - 1] ELSE pagos
           /\ citas' = IF borra
                       THEN {IF c.id = cita_id THEN [c EXCEPT !.pagado = FALSE] ELSE c
                             : c \in citas}
                       ELSE citas
           /\ last' = Respuesta("eliminar_pago",
                         Resultado(citas,
                                   IF rol = "anon" THEN <<"login">>
                                   ELSE IF ~entra THEN <<"sin_permiso">>
                                   ELSE IF borra THEN <<"ok">> ELSE <<"error">>,
                                   "redirect"))
           /\ UNCHANGED <<cuentas, sala, vista, seq_citas, fechas_bloqueadas,
                          configuracion, seguimiento, hilos>>

\* ----------------------------------------------------- actualizar_orden
Max(S) == CHOOSE x \in S : \A y \in S : y <= x

\* orden_tras_updates with the index dropped: every listed row gets 0
orden_tras_updates_sin_indice(ordered_ids, n, c) ==
    IF {i \in 1..n : ordered_ids[i] = c.id} = {} THEN c.orden ELSE 0

\* The orden of row c after the first n updates of the loop: update k writes
\* orden = k - 1 (enumerate starts at 0) on the row whose id is ordered_ids[k];
\* the last update of a row wins.
orden_tras_updates(ordered_ids, n, c) ==
    LET posiciones == {i \in 1..n : ordered_ids[i] = c.id}
    IN IF posiciones = {} THEN c.orden ELSE Max(posiciones) - 1

\* Any logged-in session may reorder.  falla is 0 when every update goes
\* through, else the position of the update that raises: the updates before
\* it stay written.
actualizar_orden_POST(rol, ordered_ids, falla) ==
    IF rol = "anon" THEN Resultado(citas, <<"No autorizado">>, "401")
    ELSE IF ordered_ids = << >>
    THEN Resultado(citas, <<"No se proporciono orden">>, "400")
    ELSE LET n == IF falla = 0 THEN Len(ordered_ids) ELSE falla - 1
             filas == {[c EXCEPT !.orden = orden_tras_updates(ordered_ids, n, c)] :
                          c \in citas}
         IN IF falla = 0 THEN Resultado(filas, <<"success">>, "200")
            ELSE Resultado(filas, <<"error">>, "500")

\* The lists a client can post: ids in any number and order, repeats allowed.
ListasDeIds == UNION {[1..n -> 1..MaxCitas] : n \in 0..MaxCitas}

actualizar_orden ==
    \E rol \in Roles, ordered_ids \in ListasDeIds :
        \E falla \in 0..Len(ordered_ids) :
            /\ Responder("actualizar_orden",
                         actualizar_orden_POST(rol, ordered_ids, falla))
            /\ UNCHANGED <<cuentas, sala, vista, fechas_bloqueadas, configuracion, pagos,
                           seguimiento, hilos>>

\* ------------------------------------------------------- admin (the panel)
Permutaciones(S) ==
    {s \in [1..Cardinality(S) -> S] : \A i, j \in DOMAIN s : i # j => s[i] # s[j]}

\* select("*").order("orden").eq("fecha", filtro_fecha): the ids of the date's
\* citas by ascending orden, as the set of lists the store may answer.  Rows
\* of equal orden come in either order; so do rows that hold the column
\* default, whose place depends on what the default is.
admin_citas(tabla, filtro_fecha) ==
    LET del_dia == {c \in tabla : c.fecha = filtro_fecha}
        ord(id) == (CHOOSE c \in del_dia : c.id = id).orden
    IN {s \in Permutaciones({c.id : c \in del_dia}) :
           \A i, j \in DOMAIN s :
               (/\ i < j
                /\ ord(s[i]) # OrdenPorDefecto
                /\ ord(s[j]) # OrdenPorDefecto) => ord(s[i]) <= ord(s[j])}

\* --------------------------------------------------------- eliminar_cita
\* .single() raises when no row has the id; the success flash comes after the
\* notification.
eliminar_cita_POST(rol, id, caidas) ==
    role_required({"admin"}, rol,
        IF "citas_select" \in caidas \/ id \notin Ids
        THEN Resultado(citas, <<"error">>, "redirect")
        ELSE IF "citas_write" \in caidas
        THEN Resultado(citas, <<"error">>, "redirect")
        ELSE IF send_telegram_message(caidas) = "lanza"
        THEN Resultado(citas \ {fila(id)}, <<"error">>, "redirect")
        ELSE Resultado(citas \ {fila(id)}, <<"ok">>, "redirect"))

eliminar_cita ==
    \E rol \in Roles, id \in 1..MaxCitas, caidas \in {{}} :
        /\ Responder("eliminar_cita", eliminar_cita_POST(rol, id, caidas))
        /\ UNCHANGED <<cuentas, sala, vista, fechas_bloqueadas, configuracion, pagos,
                       seguimiento, hilos>>

\* ------------------------------------------------------ the waiting room
\* What a waiting-room endpoint leaves behind: the citas table, the queue,
\* the message of its JSON body (or the flash of the decorator) and its status.
ResultadoSala(c, cola, fl, fin) ==
    [citas |-> c, cola |-> cola, flashes |-> fl, fin |-> fin]

\* put that jumps the queue
put_al_frente(cola, nombre) == <<nombre>> \o cola

\* announcement_queue.put(nombre)
put(cola, nombre) == Append(cola, nombre)

\* The text fields a JSON body can carry: absent or empty, or a name.
NombresJson == {""} \cup Nombres

\* Any logged-in session may announce.
anunciar_llamada_POST(rol, nombre) ==
    IF rol = "anon"
    THEN ResultadoSala(citas, announcement_queue, <<"No autorizado">>, "401")
    ELSE IF nombre = ""
    THEN ResultadoSala(citas, announcement_queue, <<"sin nombre">>, "400")
    ELSE ResultadoSala(citas, put(announcement_queue, nombre), <<"success">>, "200")

marcar_llamado(id) ==
    {IF c.id = id THEN [c EXCEPT !.fue_llamado = TRUE] ELSE c : c \in citas}

\* llamar_y_marcar_POST with the two steps swapped: the name is on the queue
\* before the update runs
llamar_y_marcar_POST_anuncia_antes(rol, cita_id, nombre, caidas) ==
    IF rol = "anon"
    THEN ResultadoSala(citas, announcement_queue, <<"login">>, "redirect")
    ELSE IF rol # "admin"
    THEN ResultadoSala(citas, announcement_queue, <<"sin_permiso">>, "redirect")
    ELSE IF cita_id = 0 \/ nombre = ""
    THEN ResultadoSala(citas, announcement_queue, <<"Faltan datos">>, "400")
    ELSE IF "citas_write" \in caidas
    THEN ResultadoSala(citas, put(announcement_queue, nombre), <<"error">>, "500")
    ELSE ResultadoSala(marcar_llamado(cita_id), put(announcement_queue, nombre),
                       <<"success">>, "200")

\* role_required('admin'), then inside one try: the test for missing data
\* (citaId 0 stands for an absent one), the update of fue_llamado by id (which
\* succeeds on no row as well), and only then the put.
llamar_y_marcar_POST(rol, cita_id, nombre, caidas) ==
    IF rol = "anon"
    THEN ResultadoSala(citas, announcement_queue, <<"login">>, "redirect")
    ELSE IF rol # "admin"
    THEN ResultadoSala(citas, announcement_queue, <<"sin_permiso">>, "redirect")
    ELSE IF cita_id = 0 \/ nombre = ""
    THEN ResultadoSala(citas, announcement_queue, <<"Faltan datos">>, "400")
    ELSE IF "citas_write" \in caidas
    THEN ResultadoSala(citas, announcement_queue, <<"error">>, "500")
    ELSE ResultadoSala(marcar_llamado(cita_id), put(announcement_queue, nombre),
                       <<"success">>, "200")

\* The request ends; encolados records the name when the queue has grown.
ResponderSala(op, r, nombre) ==
    /\ r.cola # announcement_queue => Len(encolados) < MaxAnuncios
    /\ citas' = r.citas
    /\ announcement_queue' = r.cola
    /\ encolados' = IF r.cola # announcement_queue
                    THEN Append(encolados, nombre) ELSE encolados
    /\ last' = Respuesta(op, r)
    /\ UNCHANGED <<cuentas, seq_citas, fechas_bloqueadas, configuracion, pagos,
                   seguimiento, hilos, entregas, frame, oyentes, quien, vista>>

anunciar_llamada ==
    \E rol \in Roles, nombre \in NombresJson :
        ResponderSala("anunciar_llamada", anunciar_llamada_POST(rol, nombre), nombre)

llamar_y_marcar ==
    \E rol \in Roles, cita_id \in 0..MaxCitas, nombre \in NombresJson,
       caidas \in {{}, {"citas_write"}} :
        ResponderSala("llamar_y_marcar",
                      llamar_y_marcar_POST(rol, cita_id, nombre, caidas), nombre)

\* POST /admin/marcar_llamado/<cita_id>: any logged-in session; the update
\* by id, which succeeds on no row as well.  It puts nothing on the queue.
marcar_llamado_POST(rol, cita_id, caidas) ==
    IF rol = "anon"
    THEN ResultadoSala(citas, announcement_queue, <<"No autorizado">>, "401")
    ELSE IF "citas_write" \in caidas
    THEN ResultadoSala(citas, announcement_queue, <<"error">>, "500")
    ELSE ResultadoSala(marcar_llamado(cita_id), announcement_queue,
                       <<"success">>, "200")

marcar_llamado_cita ==
    \E rol \in Roles, cita_id \in 1..MaxCitas :
        ResponderSala("marcar_llamado", marcar_llamado_POST(rol, cita_id, {}), "")

\* event_stream that yields without taking the name off the queue
event_stream_sin_quitar(cola) ==
    IF cola = << >>
    THEN [frame |-> ": keep-alive", entrega |-> << >>, cola |-> cola]
    ELSE [frame |-> "data: " \o Head(cola), entrega |-> <<Head(cola)>>,
          cola |-> cola]

\* event_stream that takes the name off the queue and yields a keep-alive
event_stream_sin_yield(cola) ==
    IF cola = << >>
    THEN [frame |-> ": keep-alive", entrega |-> << >>, cola |-> cola]
    ELSE [frame |-> ": keep-alive", entrega |-> << >>, cola |-> Tail(cola)]

\* One turn of the loop of event_stream: get(timeout=5) hands over the oldest
\* name, which is yielded as a data frame; on Empty a keep-alive comment is
\* yielded.
event_stream(cola) ==
    IF cola = << >>
    THEN [frame |-> ": keep-alive", entrega |-> << >>, cola |-> cola]
    ELSE [frame |-> "data: " \o Head(cola), entrega |-> <<Head(cola)>>,
          cola |-> Tail(cola)]

\* The connections to /stream.  Connection 1 is the tablet of the waiting
\* room, which is connected from the start.
Oyentes == 1..MaxOyentes

SinOyente == [estado |-> "fuera", recibidos |-> << >>, frame |-> ""]

OyenteNuevo == [estado |-> "dentro", recibidos |-> << >>, frame |-> ""]

\* turno that sends the name to every running generator
turno_a_todos(l) ==
    LET e == event_stream(announcement_queue)
    IN /\ oyentes[l].estado = "dentro"
       /\ Len(entregas) + Len(e.entrega) <= MaxAnuncios
       /\ announcement_queue' = e.cola
       /\ entregas' = entregas \o e.entrega
       /\ quien' = quien \o [i \in 1..Len(e.entrega) |-> l]
       /\ frame' = e.frame
       /\ oyentes' = [m \in Oyentes |->
                        IF oyentes[m].estado = "dentro"
                        THEN [oyentes[m] EXCEPT !.recibidos = @ \o e.entrega,
                                                !.frame = e.frame]
                        ELSE oyentes[m]]
       /\ UNCHANGED <<cuentas, citas, seq_citas, fechas_bloqueadas, configuracion, pagos,
                      seguimiento, hilos, encolados, vista, last>>

\* turno whose generator returns after the keep-alive
turno_y_termina(l) ==
    LET e == event_stream(announcement_queue)
    IN /\ oyentes[l].estado = "dentro"
       /\ Len(entregas) + Len(e.entrega) <= MaxAnuncios
       /\ announcement_queue' = e.cola
       /\ entregas' = entregas \o e.entrega
       /\ quien' = quien \o [i \in 1..Len(e.entrega) |-> l]
       /\ frame' = e.frame
       /\ oyentes' = [oyentes EXCEPT
                        ![l].recibidos = @ \o e.entrega,
                        ![l].frame = e.frame,
                        ![l].estado = IF e.entrega = << >> THEN "fuera" ELSE @]
       /\ UNCHANGED <<cuentas, citas, seq_citas, fechas_bloqueadas, configuracion, pagos,
                      seguimiento, hilos, encolados, vista, last>>

\* One turn of the loop of the generator of connection l, on the one queue
\* of the process.  The loop is "while True": the generator is running after
\* the turn as it was before.
turno(l) ==
    LET e == event_stream(announcement_queue)
    IN /\ oyentes[l].estado = "dentro"
       /\ Len(entregas) + Len(e.entrega) <= MaxAnuncios
       /\ announcement_queue' = e.cola
       /\ entregas' = entregas \o e.entrega
       /\ quien' = quien \o [i \in 1..Len(e.entrega) |-> l]
       /\ frame' = e.frame
       /\ oyentes' = [oyentes EXCEPT ![l].recibidos = @ \o e.entrega,
                                     ![l].frame = e.frame]
       /\ UNCHANGED <<cuentas, citas, seq_citas, fechas_bloqueadas, configuracion, pagos,
                      seguimiento, hilos, encolados, vista, last>>

\* A connected consumer of /stream takes a turn.
stream == \E l \in Oyentes : turno(l)

\* GET /stream, a public route: the response starts a generator of its own.
\* oyentes[l] keeps what earlier connections of the same client were sent.
stream_GET ==
    \E l \in Oyentes :
        /\ oyentes[l].estado = "fuera"
        /\ oyentes' = [oyentes EXCEPT ![l].estado = "dentro"]
        /\ UNCHANGED <<cuentas, citas, seq_citas, fechas_bloqueadas, configuracion, pagos,
                       seguimiento, hilos, announcement_queue, encolados,
                       entregas, frame, quien, vista, last>>

\* The client of connection l has gone: the server closes the generator,
\* which is suspended at one of its two yields and holds no name.
stream_cierre(l) ==
    /\ oyentes[l].estado = "dentro"
    /\ oyentes' = [oyentes EXCEPT ![l].estado = "fuera"]
    /\ UNCHANGED <<cuentas, citas, seq_citas, fechas_bloqueadas, configuracion, pagos,
                   seguimiento, hilos, announcement_queue, encolados,
                   entregas, frame, quien, vista, last>>

stream_desconectar == \E l \in Oyentes : stream_cierre(l)

\* ------------------------------------------------------------- sesion
\* A browser with no session cookie, on the login page.
NavegadorNuevo == [rol |-> "anon", ruta |-> "login", pendiente |-> FALSE, saltos |-> 0]

\* ------------------------------------------------------------ usuarios
\* request.form["role"] is stored as it comes: the two roles the decorators
\* know, and "doctor" for any other text.
RolesGuardables == {"admin", "secretaria", "doctor"}

SinUsuario == [username |-> "", role |-> ""]

HayFila(u) == usuarios[u] # SinUsuario

\* select("id").eq("role", "admin")
admins == {u \in 1..MaxUsuarios : usuarios[u].role = "admin"}

ResultadoUsuarios(t, fl, fin) == [usuarios |-> t, flashes |-> fl, fin |-> fin]

\* The decorator in front of the three user forms.
solo_admin(rol, cuerpo) ==
    IF rol = "anon" THEN ResultadoUsuarios(usuarios, <<"login">>, "redirect")
    ELSE IF rol # "admin"
    THEN ResultadoUsuarios(usuarios, <<"sin_permiso">>, "redirect")
    ELSE cuerpo

ResponderUsuarios(op, r) ==
    /\ usuarios' = r.usuarios
    /\ last' = Respuesta(op, r)
    /\ UNCHANGED <<citas, seq_citas, fechas_bloqueadas, configuracion, pagos,
                   seguimiento, hilos, sala, navegador, vista>>

\* POST /admin/usuarios: a new row unless the username is taken.
gestion_usuarios_POST(rol, username, role) ==
    solo_admin(rol,
        IF \E u \in 1..MaxUsuarios : usuarios[u].username = username
        THEN ResultadoUsuarios(usuarios, <<"ya_existe">>, "redirect")
        ELSE LET u == CHOOSE v \in 1..MaxUsuarios : ~HayFila(v)
             IN ResultadoUsuarios(
                    [usuarios EXCEPT ![u] = [username |-> username, role |-> role]],
                    <<"ok">>, "redirect"))

gestion_usuarios ==
    \E rol \in Roles, username \in Nombres, role \in RolesGuardables :
        /\ \E v \in 1..MaxUsuarios : ~HayFila(v)
        /\ ResponderUsuarios("gestion_usuarios",
                             gestion_usuarios_POST(rol, username, role))

\* The whole body is one try.  With at most one admin row the row of the
\* user is read with single(), which raises when there is none; an admin
\* is then refused.  Otherwise the delete runs, on no row as well.
eliminar_usuario_POST(rol, user_id, caidas) ==
    solo_admin(rol,
        IF "usuarios" \in caidas
        THEN ResultadoUsuarios(usuarios, <<"error">>, "redirect")
        ELSE IF Cardinality(admins) <= 1 /\ ~HayFila(user_id)
        THEN ResultadoUsuarios(usuarios, <<"error">>, "redirect")
        ELSE IF Cardinality(admins) <= 1 /\ usuarios[user_id].role = "admin"
        THEN ResultadoUsuarios(usuarios, <<"ultimo_admin">>, "redirect")
        ELSE ResultadoUsuarios([usuarios EXCEPT ![user_id] = SinUsuario],
                               <<"ok">>, "redirect"))

eliminar_usuario ==
    \E rol \in Roles, user_id \in 1..MaxUsuarios, caidas \in {{}, {"usuarios"}} :
        ResponderUsuarios("eliminar_usuario",
                          eliminar_usuario_POST(rol, user_id, caidas))

\* The passwords the edit form can carry: none, the same twice, or two
\* that differ.
Claves == {<<"", "">>, <<"x", "x">>, <<"x", "y">>}

\* The tests on the form, then the update of username and role by id.
editar_usuario_POST(rol, user_id, username, role, password, password_repeat) ==
    solo_admin(rol,
        IF username = "" \/ role = ""
        THEN ResultadoUsuarios(usuarios, <<"obligatorios">>, "redirect")
        ELSE IF \E u \in 1..MaxUsuarios \ {user_id} : usuarios[u].username = username
        THEN ResultadoUsuarios(usuarios, <<"en_uso">>, "redirect")
        ELSE IF password # "" /\ password # password_repeat
        THEN ResultadoUsuarios(usuarios, <<"no_coinciden">>, "redirect")
        ELSE ResultadoUsuarios(
                 IF HayFila(user_id)
                 THEN [usuarios EXCEPT ![user_id] =
                          [username |-> username, role |-> role]]
                 ELSE usuarios,
                 <<"ok">>, "redirect"))

editar_usuario ==
    \E rol \in Roles, user_id \in 1..MaxUsuarios, username \in {""} \cup Nombres,
       role \in {""} \cup RolesGuardables, claves \in Claves :
        ResponderUsuarios("editar_usuario",
            editar_usuario_POST(rol, user_id, username, role, claves[1], claves[2]))

\* ------------------------------------------------- sesion, navigation
\* The pages behind the decorator that the redirects of the decorator and of
\* login lead to, and the user list.
Rutas == {"login", "admin", "secretaria_dashboard", "gestion_usuarios"}

\* role_required(...) as written above each of them
roles_de(ruta) == IF ruta = "secretaria_dashboard" THEN {"secretaria"} ELSE {"admin"}

\* "Redirigir al panel correspondiente segun su rol"
panel_de(rol) == IF rol = "admin" THEN "admin" ELSE "secretaria_dashboard"

Pagina(ruta) == [fin |-> "pagina", destino |-> ruta]

Redirect(ruta) == [fin |-> "redirect", destino |-> ruta]

\* GET of a route by a session of role rol ("anon": no 'usuario' key).
\* login redirects a logged-in session to its panel; the other routes go
\* through role_required.
ruta_GET(ruta, rol) ==
    IF ruta = "login"
    THEN (IF rol = "anon" THEN Pagina("login") ELSE Redirect(panel_de(rol)))
    ELSE IF rol = "anon" THEN Redirect("login")
    ELSE IF rol \notin roles_de(ruta) THEN Redirect(panel_de(rol))
    ELSE Pagina(ruta)

Navega(n) ==
    /\ navegador' = n
    /\ UNCHANGED <<citas, seq_citas, fechas_bloqueadas, configuracion, pagos,
                   seguimiento, hilos, sala, usuarios, vista, last>>

\* POST /login from the login page with the username of a row: with the
\* right password the session takes the role of the row as it is stored and
\* the response redirects to the panel of that role; with a wrong one it
\* redirects to login.
login_POST ==
    \E u \in 1..MaxUsuarios, clave_correcta \in BOOLEAN :
        /\ navegador.rol = "anon" /\ ~navegador.pendiente
        /\ HayFila(u)
        /\ Navega(IF clave_correcta
                  THEN [rol |-> usuarios[u].role, ruta |-> panel_de(usuarios[u].role),
                        pendiente |-> TRUE, saltos |-> 0]
                  ELSE [rol |-> "anon", ruta |-> "login", pendiente |-> TRUE,
                        saltos |-> 0])

\* The user of the browser asks for a route.
pedir ==
    \E ruta \in Rutas :
        /\ ~navegador.pendiente
        /\ Navega([navegador EXCEPT !.ruta = ruta, !.pendiente = TRUE, !.saltos = 0])

\* The browser sends the GET it has pending, and is shown a page or is sent
\* on; it gives up after MaxSaltos redirects.
seguir ==
    LET r == ruta_GET(navegador.ruta, navegador.rol)
    IN /\ navegador.pendiente
       /\ r.fin = "redirect" => navegador.saltos < MaxSaltos
       /\ Navega(IF r.fin = "pagina"
                 THEN [navegador EXCEPT !.pendiente = FALSE]
                 ELSE [navegador EXCEPT !.ruta = r.destino, !.saltos = @ + 1])

\* ------------------------------------------- block requests, interleaved
\* A block request of a logged-in session, split at its two store calls: the
\* select of the date's rows, and the insert that follows when none was read.
\* Other requests run between the two calls.
HiloLibre == [pc |-> "libre", op |-> "", fecha |-> 0, existe |-> FALSE]

bloquear_select(op) ==
    \E h \in 1..MaxHilos, fecha \in Fechas :
        /\ hilos[h].pc = "libre"
        /\ hilos' = [hilos EXCEPT ![h] = [pc |-> "leido", op |-> op, fecha |-> fecha,
                                          existe |-> fechas_bloqueadas[fecha] > 0]]
        /\ UNCHANGED <<cuentas, sala, vista, citas, seq_citas, fechas_bloqueadas, configuracion, pagos,
                       seguimiento, last>>

bloquear_fecha_select == bloquear_select("bloquear_fecha")

secretaria_bloquear_fecha_select == bloquear_select("secretaria_bloquear_fecha")

\* The insert raises or goes through; nothing in the handler looks at the
\* table again before it.
bloquear_insert ==
    \E h \in 1..MaxHilos, caidas \in {{}, {"fechas_bloqueadas"}} :
        LET inserta == ~hilos[h].existe /\ caidas = {}
        IN /\ hilos[h].pc = "leido"
           /\ inserta => TotalBloqueos < MaxBloqueos
           /\ fechas_bloqueadas' =
                 IF inserta
                 THEN [fechas_bloqueadas EXCEPT ![hilos[h].fecha] = @ + 1]
                 ELSE fechas_bloqueadas
           /\ last' = Respuesta(hilos[h].op,
                         Resultado(citas,
                                   IF hilos[h].existe THEN <<"ya_bloqueada">>
                                   ELSE IF caidas # {} THEN <<"error">>
                                   ELSE <<"ok">>,
                                   "redirect"))
           /\ hilos' = [hilos EXCEPT ![h] = HiloLibre]
           /\ UNCHANGED <<cuentas, sala, vista, citas, seq_citas, configuracion, pagos, seguimiento>>

\* ---------------------------------------- public bookings, interleaved
\* A public booking split where it stops reading the store: the reads of the
\* configuration, the blocked dates and the citas, with the tests on them,
\* and then the insert.  Nothing between the tests and the insert looks at
\* the store again, and the store holds no limit on the rows of a date.
\* A request that fails a test is answered at once.
registrar_cita_valida ==
    \E h \in 1..MaxHilos, nombre \in Nombres, fecha \in Fechas :
        LET r == registrar_cita_POST(nombre, fecha, {})
        IN /\ hilos[h].pc = "libre"
           /\ IF r.citas # citas
              THEN /\ hilos' = [hilos EXCEPT ![h] =
                                  [pc |-> "validada", op |-> "registrar_cita",
                                   fecha |-> fecha, existe |-> FALSE,
                                   nombre |-> nombre]]
                   /\ UNCHANGED <<citas, seq_citas, last>>
              ELSE /\ Responder("registrar_cita", r)
                   /\ UNCHANGED hilos
           /\ UNCHANGED <<cuentas, sala, vista, fechas_bloqueadas, configuracion, pagos,
                          seguimiento>>

registrar_cita_inserta ==
    \E h \in 1..MaxHilos :
        /\ hilos[h].pc = "validada"
        /\ Responder("registrar_cita",
                     Resultado(citas \cup {NuevaCita(hilos[h].nombre, hilos[h].fecha)},
                               <<"ok">>, "redirect"))
        /\ hilos' = [hilos EXCEPT ![h] = HiloLibre]
        /\ UNCHANGED <<cuentas, sala, vista, fechas_bloqueadas, configuracion, pagos,
                       seguimiento>>

\* ------------------------------------------------------- specifications
Init ==
    /\ citas = {}
    /\ seq_citas = 0
    /\ fechas_bloqueadas = [f \in Fechas |-> 0]
    /\ configuracion = [k \in {} |-> ""]
    /\ pagos = [i \in 1..MaxCitas |-> 0]
    /\ seguimiento = 0
    /\ hilos = [h \in 1..MaxHilos |-> HiloLibre]
    /\ announcement_queue = << >>
    /\ encolados = << >>
    /\ entregas = << >>
    /\ frame = ""
    /\ oyentes = [l \in Oyentes |-> IF l = 1 THEN OyenteNuevo ELSE SinOyente]
    /\ quien = << >>
    /\ usuarios = [u \in 1..MaxUsuarios |->
                      IF u = 1 THEN [username |-> "Ana", role |-> "admin"]
                      ELSE SinUsuario]
    /\ navegador = NavegadorNuevo
    /\ vista = [dias_llenos |-> << >>, citas |-> {}, configuracion |-> << >>]
    /\ last = [op |-> "inicio", flashes |-> << >>, fin |-> "render"]

\* The store as earlier requests left it: a configuration the form has saved
\* (or none yet) and at most MaxBloqueadas blocked dates, one row each.
Configuraciones(limites) ==
    {[k \in {} |-> ""]} \cup
    {upsert([k \in {} |-> ""], config_updates(sab, dom, limite)) :
        sab \in BOOLEAN, dom \in BOOLEAN, limite \in limites}

Bloqueos ==
    {b \in [Fechas -> {0, 1}] :
        Cardinality({f \in Fechas : b[f] = 1}) <= MaxBloqueadas}

InitTablas(limites) ==
    /\ citas = {}
    /\ seq_citas = 0
    /\ fechas_bloqueadas \in Bloqueos
    /\ configuracion \in Configuraciones(limites)
    /\ pagos = [i \in 1..MaxCitas |-> 0]
    /\ seguimiento = 0
    /\ hilos = [h \in 1..MaxHilos |-> HiloLibre]
    /\ announcement_queue = << >>
    /\ encolados = << >>
    /\ entregas = << >>
    /\ frame = ""
    /\ oyentes = [l \in Oyentes |-> IF l = 1 THEN OyenteNuevo ELSE SinOyente]
    /\ quien = << >>
    /\ usuarios = [u \in 1..MaxUsuarios |->
                      IF u = 1 THEN [username |-> "Ana", role |-> "admin"]
                      ELSE SinUsuario]
    /\ navegador = NavegadorNuevo
    /\ vista = [dias_llenos |-> << >>, citas |-> {}, configuracion |-> << >>]
    /\ last = [op |-> "inicio", flashes |-> << >>, fin |-> "render"]

\* The administration forms and the public booking form, from the empty store.
Next ==
    \/ configuracion_POST
    \/ bloquear_fecha
    \/ secretaria_bloquear_fecha
    \/ desbloquear
    \/ secretaria_desbloquear
    \/ registrar_cita

Spec == Init /\ [][Next]_vars

\* Capacity: the configuration form and the public booking form.
NextCupo ==
    \/ configuracion_POST
    \/ registrar_cita

SpecCupo == Init /\ [][NextCupo]_vars

\* The configuration table, written by the form of either version.
NextConfig ==
    \/ configuracion_POST
    \/ configuracion_v2_POST
    \/ registrar_cita

SpecConfig == Init /\ [][NextConfig]_vars

\* The store with a limit of its own for each weekday of the window, as the
\* configuration form saves them: a number, or a text that is not one.
ConfiguracionesPorDia ==
    {[config_updates(FALSE, FALSE, "") EXCEPT
          !["max_pacientes_viernes"] = v, !["max_pacientes_sabado"] = s] :
        v \in {"abc", "1", "2"}, s \in {"abc", "1", "2"}}

InitLimites ==
    /\ citas = {}
    /\ seq_citas = 0
    /\ fechas_bloqueadas = [f \in Fechas |-> 0]
    /\ configuracion \in ConfiguracionesPorDia
    /\ pagos = [i \in 1..MaxCitas |-> 0]
    /\ seguimiento = 0
    /\ hilos = [h \in 1..MaxHilos |-> HiloLibre]
    /\ announcement_queue = << >>
    /\ encolados = << >>
    /\ entregas = << >>
    /\ frame = ""
    /\ oyentes = [l \in Oyentes |-> IF l = 1 THEN OyenteNuevo ELSE SinOyente]
    /\ quien = << >>
    /\ usuarios = [u \in 1..MaxUsuarios |->
                      IF u = 1 THEN [username |-> "Ana", role |-> "admin"]
                      ELSE SinUsuario]
    /\ navegador = NavegadorNuevo
    /\ vista = [dias_llenos |-> << >>, citas |-> {}, configuracion |-> << >>]
    /\ last = [op |-> "inicio", flashes |-> << >>, fin |-> "render"]

\* Bookings by the public and by the staff, and the form that shows the
\* full dates.
NextLimites ==
    \/ registrar_cita
    \/ registrar_cita_admin
    \/ registrar_cita_GET

SpecLimites == InitLimites /\ [][NextLimites]_vars

\* Public bookings alone, in flight at the same time.
NextCarrera ==
    \/ registrar_cita_valida
    \/ registrar_cita_inserta

SpecCarrera == InitLimites /\ [][NextCarrera]_vars

\* The user forms.
NextUsuarios ==
    \/ gestion_usuarios
    \/ eliminar_usuario
    \/ editar_usuario

SpecUsuarios == Init /\ [][NextUsuarios]_vars

\* Sessions of the users the forms have stored.
NextSesion ==
    \/ gestion_usuarios
    \/ editar_usuario
    \/ login_POST
    \/ pedir
    \/ seguir

SpecSesion == Init /\ [][NextSesion]_vars

\* Every path that creates a cita or changes its date, over a saved
\* configuration whose limit, when set, is one patient a day.
InitRutas == InitTablas({"", "1"})

NextRutas ==
    \/ registrar_cita
    \/ registrar_cita_admin
    \/ registrar_cita_secretaria
    \/ seguimiento_paciente
    \/ mover_cita
    \/ secretaria_mover_cita
    \/ mover_cita_v3

SpecRutas == InitRutas /\ [][NextRutas]_vars

\* Payments and moves.
NextPagos ==
    \/ registrar_cita
    \/ registrar_pago
    \/ mover_cita
    \/ secretaria_mover_cita
    \/ mover_cita_v2
    \/ mover_cita_v3

SpecPagos == Init /\ [][NextPagos]_vars

\* Payments registered and deleted, the store working.
NextCobros ==
    \/ registrar_cita
    \/ secretaria_registrar_pago
    \/ admin_registrar_pago
    \/ eliminar_pago

SpecCobros == Init /\ [][NextCobros]_vars

\* Block and unblock requests, the block requests interleaved.
NextBloqueo ==
    \/ bloquear_fecha_select
    \/ secretaria_bloquear_fecha_select
    \/ bloquear_insert
    \/ desbloquear
    \/ secretaria_desbloquear

SpecBloqueo == Init /\ [][NextBloqueo]_vars

\* The queue of a date: creations, reorders, moves and deletions.
NextOrden ==
    \/ registrar_cita
    \/ registrar_cita_admin
    \/ seguimiento_paciente
    \/ actualizar_orden
    \/ mover_cita
    \/ eliminar_cita

SpecOrden == Init /\ [][NextOrden]_vars

\* Bookings, moves and deletions while the notification services come and go.
NextAvisos ==
    \/ registrar_cita
    \/ registrar_cita_aviso_caido
    \/ mover_cita
    \/ eliminar_cita

SpecAvisos == Init /\ [][NextAvisos]_vars

\* The public form, shown and posted, under a saved configuration.
InitLectura == InitTablas({"1", "2"})

NextLectura ==
    \/ registrar_cita
    \/ registrar_cita_GET

SpecLectura == InitLectura /\ [][NextLectura]_vars

\* The waiting room: the two producers and the consumer of the queue.
NextSala ==
    \/ anunciar_llamada
    \/ llamar_y_marcar
    \/ stream

SpecSala == Init /\ [][NextSala]_vars

\* The consumer stays connected and keeps taking turns.
SpecSalaViva == SpecSala /\ WF_vars(stream)

\* Several listeners on the one queue, which come and go.
NextOyentes ==
    \/ anunciar_llamada
    \/ stream_GET
    \/ stream
    \/ stream_desconectar

SpecOyentes == Init /\ [][NextOyentes]_vars

\* Every generator that is running keeps taking turns: its get returns within
\* the timeout whatever the queue holds.
SpecOyentesVivos == SpecOyentes /\ \A l \in Oyentes : WF_vars(turno(l))

\* The three endpoints of the call button, over booked citas.
NextAnuncio ==
    \/ registrar_cita
    \/ marcar_llamado_cita
    \/ anunciar_llamada
    \/ llamar_y_marcar

SpecAnuncio == Init /\ [][NextAnuncio]_vars

\* Calling a patient: citas are booked, called and announced.
NextLlamada ==
    \/ registrar_cita
    \/ llamar_y_marcar
    \/ stream

SpecLlamada == Init /\ [][NextLlamada]_vars

\* ================================================================ claims
\* What the claims read of a state, the store working.
config_actual == get_configuracion({})

Llenas == ToSet(get_dias_llenos(config_actual, {}))

limite_de(f) == config_actual[clave_limite(mapa_dias[weekday(f)])]

SabadoVetado(f) == config_actual["bloquear_sabados"] = "true" /\ weekday(f) = 5

DomingoVetado(f) == config_actual["bloquear_domingos"] = "true" /\ weekday(f) = 6

\* the response inserts one cita of that name on that date
Inserta(r, nombre, fecha) == r.citas = citas \cup {NuevaCita(nombre, fecha)}

\* the response changes no cita and does not report success
Rechaza(r) == r.citas = citas /\ "ok" \notin ToSet(r.flashes)

\* ---------------------------------------------------------------- C1
\* C1, per date and limit: with L-1 citas on the date the full dates do not
\* hold it and a public booking for it (the date neither blocked nor under a
\* weekend flag) inserts one cita; with L citas the full dates hold it and a
\* public booking is rejected and inserts nothing.
C1_Caso(f, L) ==
    /\ conteo(f) = L - 1 =>
          /\ f \notin Llenas
          /\ f \notin Bloqueadas /\ ~SabadoVetado(f) /\ ~DomingoVetado(f) =>
                \A nombre \in Nombres :
                    Inserta(registrar_cita_POST(nombre, f, {}), nombre, f)
    /\ conteo(f) = L =>
          /\ f \in Llenas
          /\ \A nombre \in Nombres : Rechaza(registrar_cita_POST(nombre, f, {}))

\* C1: for any Monday-Saturday date whose weekday limit is the number L, the
\* L-1 / L boundary of C1_Caso holds.
C1_Cupo ==
    \A f \in Fechas :
        weekday(f) <= 5 /\ es_numero(limite_de(f)) => C1_Caso(f, int(limite_de(f)))

\* C1 restricted to limits of at least one patient.
C1_CupoPositivo ==
    \A f \in Fechas :
        (weekday(f) <= 5 /\ es_numero(limite_de(f)) /\ int(limite_de(f)) >= 1)
            => C1_Caso(f, int(limite_de(f)))

\* C1, where it fails: the limit is 0 and a public booking has just been
\* accepted for the date.
C1_CupoCeroAceptada ==
    /\ last.op = "registrar_cita" /\ last.flashes = <<"ok">>
    /\ \E c \in citas : /\ c.id = seq_citas
                        /\ weekday(c.fecha) <= 5
                        /\ limite_de(c.fecha) = "0"

\* ---------------------------------------------------------------- C2
\* C2: the full dates returned by get_dias_llenos hold no date before today.
C2_SinFechasPasadas == \A f \in Llenas : f >= Hoy

\* C2, where it fails: a date before today is among the full dates.
C2_FechaPasadaLlena == \E f \in Llenas : f < Hoy

\* ---------------------------------------------------------------- C3
Personal == {"admin", "secretaria"}

SeguimientoLibre(id, f) ==
    /\ id \in Ids
    /\ \A c \in citas : ~(c.nombre = fila(id).nombre /\ c.fecha = f)

\* C4: for a date that is full by capacity and not manually blocked, staff
\* booking and staff follow-up scheduling insert the cita, for role admin and
\* for role secretaria.
C4_PersonalSobreCupo ==
    \A f \in Llenas \ Bloqueadas, rol \in Personal :
        /\ \A nombre \in Nombres :
              /\ Inserta(registrar_cita_admin_POST(rol, nombre, f, {}), nombre, f)
              /\ Inserta(registrar_cita_secretaria_POST(rol, nombre, f, {}), nombre, f)
        /\ \A id \in 1..MaxCitas :
              SeguimientoLibre(id, f) =>
                  Inserta(seguimiento_paciente_POST(rol, id, TRUE, f, {}),
                          fila(id).nombre, f)

\* C4 apart from the weekend flags: the follow-up conjunct only for dates
\* that are not under a weekend flag.
C4_SalvoFinDeSemana ==
    \A f \in Llenas \ Bloqueadas, rol \in Personal :
        /\ \A nombre \in Nombres :
              /\ Inserta(registrar_cita_admin_POST(rol, nombre, f, {}), nombre, f)
              /\ Inserta(registrar_cita_secretaria_POST(rol, nombre, f, {}), nombre, f)
        /\ \A id \in 1..MaxCitas :
              (SeguimientoLibre(id, f) /\ ~SabadoVetado(f) /\ ~DomingoVetado(f)) =>
                  Inserta(seguimiento_paciente_POST(rol, id, TRUE, f, {}),
                          fila(id).nombre, f)

\* C4, where it fails: a follow-up has just been refused for being on a
\* Saturday while a full, unblocked Saturday is under the Saturday flag.
C4_SeguimientoSabadoLleno ==
    /\ last.op = "seguimiento_paciente" /\ last.flashes = <<"sabado">>
    /\ \E f \in Llenas \ Bloqueadas : SabadoVetado(f)

\* ---------------------------------------------------------------- C6
\* C6: on every staff path that creates a cita, an enabled weekend flag only
\* warns: for a Saturday or Sunday under its flag and not manually blocked,
\* staff booking and the follow-up branch still insert the cita.
C6_FinDeSemanaSoloAvisa ==
    \A f \in Fechas \ Bloqueadas, rol \in Personal :
        (SabadoVetado(f) \/ DomingoVetado(f)) =>
            /\ \A nombre \in Nombres :
                  /\ Inserta(registrar_cita_admin_POST(rol, nombre, f, {}), nombre, f)
                  /\ Inserta(registrar_cita_secretaria_POST(rol, nombre, f, {}),
                             nombre, f)
            /\ \A id \in 1..MaxCitas :
                  SeguimientoLibre(id, f) =>
                      Inserta(seguimiento_paciente_POST(rol, id, TRUE, f, {}),
                              fila(id).nombre, f)

\* C6 for the two staff booking forms alone.
C6_RegistroPersonalAvisa ==
    \A f \in Fechas \ Bloqueadas, rol \in Personal, nombre \in Nombres :
        (SabadoVetado(f) \/ DomingoVetado(f)) =>
            /\ Inserta(registrar_cita_admin_POST(rol, nombre, f, {}), nombre, f)
            /\ Inserta(registrar_cita_secretaria_POST(rol, nombre, f, {}), nombre, f)

\* C6, where it fails: a follow-up has just been refused for being on a
\* Sunday, no date being blocked.
C6_SeguimientoDomingoRechazado ==
    /\ last.op = "seguimiento_paciente" /\ last.flashes = <<"domingo">>
    /\ Bloqueadas = {}

\* ---------------------------------------------------------------- C5
\* C5: with bloquear_sabados (bloquear_domingos) 'true' a public booking for
\* a Saturday (Sunday) is rejected and inserts nothing; with the flag 'false'
\* or absent the weekday alone rejects nothing: a Saturday or Sunday that is
\* neither blocked nor full is booked.
C5_FinDeSemanaPublico ==
    \A f \in Fechas, nombre \in Nombres :
        /\ (SabadoVetado(f) \/ DomingoVetado(f)) =>
              Rechaza(registrar_cita_POST(nombre, f, {}))
        /\ (/\ weekday(f) \in {5, 6}
            /\ ~SabadoVetado(f) /\ ~DomingoVetado(f)
            /\ f \notin Bloqueadas /\ f \notin Llenas) =>
              Inserta(registrar_cita_POST(nombre, f, {}), nombre, f)

\* C5 reached: the public form has just refused a Sunday under the Sunday
\* flag, and holds a Sunday cita booked while the flag was off.
C5_DomingoRechazado ==
    /\ last.op = "registrar_cita" /\ last.flashes = <<"domingo">>
    /\ config_actual["bloquear_domingos"] = "true"
    /\ \E c \in citas : weekday(c.fecha) = 6

\* ---------------------------------------------------------------- C7
\* the rules a date fails, and the first of them in the order Saturday flag,
\* Sunday flag, manual block, full by capacity
ReglasFalladas(f) ==
    (IF SabadoVetado(f) THEN {"sabado"} ELSE {})
    \cup (IF DomingoVetado(f) THEN {"domingo"} ELSE {})
    \cup (IF f \in Bloqueadas THEN {"bloqueada"} ELSE {})
    \cup (IF f \in Llenas THEN {"llena"} ELSE {})

PrimerMotivo(f) ==
    IF SabadoVetado(f) THEN "sabado"
    ELSE IF DomingoVetado(f) THEN "domingo"
    ELSE IF f \in Bloqueadas THEN "bloqueada"
    ELSE "llena"

\* the reason a response reports; the message of the move forms that names
\* both the block and the capacity stands for either
Reporta(r, motivo) ==
    \/ r.flashes = <<motivo>>
    \/ r.flashes = <<"llena_o_bloqueada">> /\ motivo \in {"bloqueada", "llena"}

\* C7: for a date that fails more than one rule, the reason reported is that
\* of the first failing rule in the order Saturday flag, Sunday flag, manual
\* block, full by capacity, and it is the same in public booking, reschedule
\* and follow-up scheduling.
C7_OrdenDeReglas ==
    \A f \in Fechas :
        Cardinality(ReglasFalladas(f)) > 1 =>
            /\ \A nombre \in Nombres :
                  Reporta(registrar_cita_POST(nombre, f, {}), PrimerMotivo(f))
            /\ \A rol \in Personal, id \in Ids :
                  /\ Reporta(mover_cita_POST(rol, id, f, {}), PrimerMotivo(f))
                  /\ Reporta(secretaria_mover_cita_POST(rol, id, f, {}), PrimerMotivo(f))
                  /\ Reporta(seguimiento_paciente_POST(rol, id, TRUE, f, {}),
                             PrimerMotivo(f))

\* C7 for the public booking form alone.
C7_OrdenPublico ==
    \A f \in Fechas, nombre \in Nombres :
        Cardinality(ReglasFalladas(f)) > 1 =>
            Reporta(registrar_cita_POST(nombre, f, {}), PrimerMotivo(f))

\* C7, where it fails: the only unavailable date is a blocked Saturday under
\* the Saturday flag, and a move to it has just been refused as full or
\* blocked.
C7_MoverSabadoBloqueado ==
    /\ last.op = "mover_cita" /\ last.flashes = <<"llena_o_bloqueada">>
    /\ Llenas = {}
    /\ Bloqueadas # {}
    /\ \A f \in Bloqueadas : SabadoVetado(f)

\* ---------------------------------------------------------------- C8
\* C8: with the store working, a weekend, block or capacity rejection of a
\* booking or of a reschedule ends in a response that carries a reason, never
\* in an exception nobody catches.
C8_RechazoSinExcepcion ==
    \A f \in Fechas :
        ReglasFalladas(f) # {} =>
            /\ \A nombre \in Nombres :
                  LET r == registrar_cita_POST(nombre, f, {})
                  IN r.fin # "excepcion" /\ r.flashes # << >>
            /\ \A rol \in Personal, id \in Ids :
                  pagos[id] = 0 =>
                      LET r == mover_cita_v3_POST(rol, id, f, {})
                      IN r.fin # "excepcion" /\ r.flashes # << >>

\* C8 for the reschedule forms of app.py.
C8_MoverSinExcepcion ==
    \A f \in Fechas, rol \in Personal, id \in Ids :
        ReglasFalladas(f) # {} =>
            /\ mover_cita_POST(rol, id, f, {}).fin # "excepcion"
            /\ secretaria_mover_cita_POST(rol, id, f, {}).fin # "excepcion"

\* C8, where it fails: the public form has just answered a full date with an
\* exception.
C8_RechazoConExcepcion ==
    /\ last.op = "registrar_cita" /\ last.flashes = <<"llena">>
    /\ last.fin = "excepcion"

\* ---------------------------------------------------------------- C9
\* C9, for the two reschedule forms of app.py: a move of a cita that a payment
\* row references is rejected and leaves its date as it was, and so is any
\* move whose payment lookup fails.
C9_MoverConPagoApp ==
    \A rol \in Personal, id \in Ids, f \in Fechas :
        /\ pagos[id] > 0 =>
              /\ Rechaza(mover_cita_POST(rol, id, f, {}))
              /\ Rechaza(secretaria_mover_cita_POST(rol, id, f, {}))
        /\ Rechaza(mover_cita_POST(rol, id, f, {"pagos"}))
        /\ Rechaza(secretaria_mover_cita_POST(rol, id, f, {"pagos"}))

\* C9: a move of a cita that a payment row references is rejected and leaves
\* its date as it was, in the reschedule forms of app.py and in the one of
\* app_v2.py; the forms that look the payments up reject as well when the
\* lookup fails.
C9_MoverConPago ==
    /\ C9_MoverConPagoApp
    /\ \A rol \in Personal, id \in Ids, f \in Fechas :
          pagos[id] > 0 => Rechaza(mover_cita_v2_POST(rol, id, f, {}))

\* C9, where it fails: the only cita there has ever been is referenced by a
\* payment row, and the app_v2 form has just accepted a move of it.
C9_PagadaMovida ==
    /\ seq_citas = 1
    /\ citas # {}
    /\ \A c \in citas : pagos[c.id] > 0
    /\ last.op = "mover_cita_v2" /\ last.flashes = <<"ok">>

\* --------------------------------------------------------------- C10
\* C10: under any interleaving of block and unblock requests the blocked
\* dates table holds at most one row per date.
C10_UnaFilaPorFecha == \A f \in Fechas : fechas_bloqueadas[f] <= 1

\* C10, where it fails: a date holds two rows, and the request that has just
\* ended reported success.
C10_FechaDuplicada ==
    /\ \E f \in Fechas : fechas_bloqueadas[f] = 2
    /\ last.flashes = <<"ok">>
    /\ \A h \in 1..MaxHilos : hilos[h].pc = "libre"

\* --------------------------------------------------------------- C11
IdsDelDia(f) == {c.id : c \in {d \in citas : d.fecha = f}}

\* C11: after actualizar_orden succeeds with the complete list of a date's
\* ids, in any permutation, the id at list position i holds orden i (from 0)
\* and the date's citas read by ascending orden are exactly that list.
C11_LeeElOrdenEnviado ==
    \A f \in Fechas, rol \in Personal :
        \A lista \in Permutaciones(IdsDelDia(f)) :
            lista # << >> =>
                LET r == actualizar_orden_POST(rol, lista, 0)
                IN /\ r.fin = "200"
                   /\ \A i \in DOMAIN lista :
                         \E c \in r.citas : c.id = lista[i] /\ c.orden = i - 1
                   /\ admin_citas(r.citas, f) = {lista}

\* C11 reached: a reorder has just succeeded and a date's citas now read in
\* the reverse of their creation order.
C11_OrdenInvertido ==
    /\ last.op = "actualizar_orden" /\ last.fin = "200"
    /\ \E c1, c2 \in citas :
          /\ c1.fecha = c2.fecha /\ c1.id < c2.id
          /\ c2.orden = 0 /\ c1.orden = 1
          /\ admin_citas(citas, c1.fecha) = {<<c2.id, c1.id>>}

\* --------------------------------------------------------------- C12
\* What the column default may be: NULL (the mark itself) or one number.
DefectosPosibles == {OrdenPorDefecto} \cup (0..MaxCitas)

\* the orden a row holds when the column default is d
valor_orden(c, d) == IF c.orden = OrdenPorDefecto THEN d ELSE c.orden

\* the rows each creating path would insert for the date
Creadas(f) ==
    UNION {r.citas \ citas :
              r \in {registrar_cita_POST(nombre, f, {}) : nombre \in Nombres}
                 \cup {registrar_cita_admin_POST(rol, nombre, f, {}) :
                          rol \in Personal, nombre \in Nombres}
                 \cup {registrar_cita_secretaria_POST(rol, nombre, f, {}) :
                          rol \in Personal, nombre \in Nombres}
                 \cup {seguimiento_paciente_POST(rol, id, TRUE, f, {}) :
                          rol \in Personal, id \in Ids}}

\* C12: every cita created by public booking, staff booking or follow-up is
\* stored with orden equal to the number of citas its date already holds
\* (under some value of the column default, since no insert names orden).
C12_OrdenAlCrear ==
    \E d \in DefectosPosibles :
        \A f \in Fechas : \A c \in Creadas(f) : valor_orden(c, d) = conteo(f)

\* C12, where it fails: a creation has just succeeded and its date holds two
\* citas that both carry the column default as their orden.
C12_DosConElDefecto ==
    /\ last.op \in {"registrar_cita", "registrar_cita_admin", "seguimiento_paciente"}
    /\ "ok" \in ToSet(last.flashes)
    /\ \E c1, c2 \in citas :
          /\ c1.id < c2.id /\ c2.id = seq_citas /\ c1.fecha = c2.fecha
          /\ c1.orden = OrdenPorDefecto /\ c2.orden = OrdenPorDefecto

\* --------------------------------------------------------------- C13
\* C13: in every reachable state the orden values of the citas that share a
\* date are pairwise distinct non-negative integers (under some value of the
\* column default).
C13_OrdenUnicoPorFecha ==
    \E d \in DefectosPosibles :
        /\ \A c \in citas : valor_orden(c, d) >= 0
        /\ \A c1, c2 \in citas :
              (c1.id # c2.id /\ c1.fecha = c2.fecha)
                  => valor_orden(c1, d) # valor_orden(c2, d)

\* C13, where it fails: a move has just brought together two citas that had
\* each been given orden 0 on its own date.
C13_MovidaRepiteOrden ==
    /\ last.op = "mover_cita" /\ last.flashes = <<"ok">>
    /\ \E c1, c2 \in citas :
          /\ c1.id # c2.id /\ c1.fecha = c2.fecha
          /\ c1.orden = 0 /\ c2.orden = 0

\* --------------------------------------------------------------- C14
\* C14: a follow-up with a new date for a patient name that already holds a
\* cita on that date inserts neither a cita nor a seguimiento row, and is
\* answered with the conflict message when the date passes the block and
\* weekend tests that come before the lookup; and no follow-up inserts a cita
\* whose patient name already holds one on the date.
YaTieneCita(nombre, f) == \E c \in citas : c.nombre = nombre /\ c.fecha = f

Veces(n, sec) == Cardinality({i \in DOMAIN sec : sec[i] = n})

Frames == {"", ": keep-alive"} \cup {"data: " \o n : n \in Nombres}

\* In every state: a name has been delivered once for each time it was put on
\* the queue and is no longer waiting; a turn of the consumer on an empty
\* queue yields the keep-alive frame and delivers nothing; and every frame
\* yielded is a data frame or a keep-alive.
C15_Entregas ==
    /\ \A n \in Nombres :
          Veces(n, entregas) + Veces(n, announcement_queue) = Veces(n, encolados)
    /\ announcement_queue = << >> =>
          /\ event_stream(announcement_queue).frame = ": keep-alive"
          /\ event_stream(announcement_queue).entrega = << >>
    /\ frame \in Frames

\* C15: each announce of a name results in exactly one delivery of it by the
\* stream consumer (k announces, k deliveries), and a turn on an empty queue
\* yields a keep-alive, never an error or a repeated delivery: C15_Entregas
\* holds throughout, and the k-th name announced is eventually delivered.
C15_CadaAnuncioUnaEntrega ==
    /\ []C15_Entregas
    /\ \A k \in 1..MaxAnuncios :
          (Len(encolados) >= k) ~> (Len(entregas) >= k /\ entregas[k] = encolados[k])

\* C15 reached: the same name was announced twice and delivered twice, and a
\* further turn on the empty queue has yielded a keep-alive.
C15_DosVecesDosEntregas ==
    /\ encolados = <<"Ana", "Ana">>
    /\ entregas = <<"Ana", "Ana">>
    /\ announcement_queue = << >>
    /\ frame = ": keep-alive"

\* --------------------------------------------------------------- C16
\* C16: with the producers anunciar_llamada and llamar_y_marcar interleaved in
\* any way and one consumer, the names delivered followed by the names still
\* waiting are the names in the order their puts completed: none overtakes an
\* earlier one and none is dropped.
C16_OrdenDeLlegada == entregas \o announcement_queue = encolados

\* C16 reached: both producers have put names, the first two have been
\* delivered in the order of their puts, and the third is waiting.
C16_DosEntregadasUnaEnCola ==
    /\ encolados = <<"Luz", "Ana", "Luz">>
    /\ entregas = <<"Luz", "Ana">>
    /\ announcement_queue = <<"Luz">>
    /\ last.op = "llamar_y_marcar"

\* --------------------------------------------------------------- C17
\* C17: llamar_y_marcar by an admin with an id and a name marks the cita as
\* called and puts the name on the queue; when the store update fails it puts
\* nothing, marks nothing and reports failure; a request without the id or
\* without the name neither updates the store nor puts anything.
C17_MarcaYLuegoAnuncia ==
    \A cita_id \in 0..MaxCitas, nombre \in NombresJson :
        LET r == llamar_y_marcar_POST("admin", cita_id, nombre, {})
            caida == llamar_y_marcar_POST("admin", cita_id, nombre, {"citas_write"})
        IN IF cita_id = 0 \/ nombre = ""
           THEN /\ r.citas = citas /\ r.cola = announcement_queue
                /\ r.fin = "400"
                /\ caida.citas = citas /\ caida.cola = announcement_queue
           ELSE /\ r.citas = marcar_llamado(cita_id)
                /\ \A c \in r.citas : c.id = cita_id => c.fue_llamado
                /\ r.cola = Append(announcement_queue, nombre)
                /\ r.fin = "200"
                /\ caida.citas = citas /\ caida.cola = announcement_queue
                /\ caida.fin = "500" /\ caida.flashes = <<"error">>

\* C17 reached: the endpoint has just reported the failure of the update for a
\* cita that exists; the cita is not marked and nothing was ever put on the
\* queue.
C17_FalloSinAnuncio ==
    /\ last.op = "llamar_y_marcar" /\ last.fin = "500"
    /\ citas # {}
    /\ \A c \in citas : ~c.fue_llamado
    /\ encolados = << >>

\* --------------------------------------------------------------- C18
\* C18: eliminar_cita, under role_required('admin'), deletes for an admin and
\* is turned away at the decorator, the cita still stored, for a session
\* without a user and for a secretaria; registrar_cita_admin, under
\* role_required('admin', 'secretaria'), books for either role and turns away
\* a session without a user.
C18_SoloLosRolesPermitidos ==
    /\ \A id \in Ids :
          /\ eliminar_cita_POST("admin", id, {}).citas = citas \ {fila(id)}
          /\ eliminar_cita_POST("anon", id, {}) =
                Resultado(citas, <<"login">>, "redirect")
          /\ eliminar_cita_POST("secretaria", id, {}) =
                Resultado(citas, <<"sin_permiso">>, "redirect")
    /\ \A nombre \in Nombres, f \in Fechas \ Bloqueadas :
          /\ \A rol \in Personal :
                Inserta(registrar_cita_admin_POST(rol, nombre, f, {}), nombre, f)
          /\ registrar_cita_admin_POST("anon", nombre, f, {}) =
                Resultado(citas, <<"login">>, "redirect")

\* C18 reached: a secretaria has just been turned away from eliminar_cita
\* while a cita is stored.
C18_SecretariaNoElimina ==
    /\ last.op = "eliminar_cita" /\ last.flashes = <<"sin_permiso">>
    /\ citas # {}

\* --------------------------------------------------------------- C19
\* While the tables are as they were when the form last showed the full
\* dates, a call of get_dias_llenos returns what that call returned.
C19_MismaLectura ==
    (vista.citas = citas /\ vista.configuracion = configuracion)
        => get_dias_llenos(get_configuracion({}), {}) = vista.dias_llenos

SinEfecto(a) ==
    \A f \in Fechas :
        /\ \A nombre \in Nombres :
              /\ registrar_cita_POST(nombre, f, {a}) = registrar_cita_POST(nombre, f, {})
              /\ \A rol \in Personal :
                    /\ registrar_cita_admin_POST(rol, nombre, f, {a})
                          = registrar_cita_admin_POST(rol, nombre, f, {})
                    /\ registrar_cita_secretaria_POST(rol, nombre, f, {a})
                          = registrar_cita_secretaria_POST(rol, nombre, f, {})
        /\ \A rol \in Personal, id \in Ids :
              /\ mover_cita_POST(rol, id, f, {a}) = mover_cita_POST(rol, id, f, {})
              /\ secretaria_mover_cita_POST(rol, id, f, {a})
                    = secretaria_mover_cita_POST(rol, id, f, {})
              /\ eliminar_cita_POST(rol, id, {a}) = eliminar_cita_POST(rol, id, {})
              /\ \A necesita_cita \in BOOLEAN :
                    seguimiento_paciente_POST(rol, id, necesita_cita, f, {a})
                        = seguimiento_paciente_POST(rol, id, necesita_cita, f, {})

\* C20: a failure of send_telegram_message or of send_whatsapp_reminder after
\* a booking, a move, a deletion or a follow-up leaves the store write done
\* and the answer to the user as they are without the failure.
C20_AvisoFallidoSinEfecto == \A a \in Avisos : SinEfecto(a)

\* C20 for the failures that carry no response.
C20_SinRespuestaSinEfecto == SinEfecto("telegram") /\ SinEfecto("whatsapp")

\* C20, where it fails: the public booking has just stored the cita, flashed
\* success and then flashed the error of its except branch and rendered the
\* form again.
C20_ReservaHechaYError ==
    /\ last.op = "registrar_cita"
    /\ last.flashes = <<"ok", "error">> /\ last.fin = "render"
    /\ \E c \in citas : c.id = seq_citas

\* --------------------------------------------------------------- C21
RECURSIVE DelOyente(_, _, _)
\* the names of ent that connection l yielded, q naming who yielded each
DelOyente(ent, q, l) ==
    IF ent = << >> THEN << >>
    ELSE (IF Head(q) = l THEN <<Head(ent)>> ELSE << >>)
             \o DelOyente(Tail(ent), Tail(q), l)

HayOyente == \E l \in Oyentes : <>[](oyentes[l].estado = "dentro")

\* In every state: every name put on the queue is still waiting or was
\* yielded by one get, each get that returned a name belongs to one
\* connection, and each connection was sent the names of its own gets and no
\* others.
C21_UnoSolo ==
    /\ entregas \o announcement_queue = encolados
    /\ Len(quien) = Len(entregas)
    /\ \A l \in Oyentes :
          oyentes[l].recibidos = DelOyente(entregas, quien, l)

\* C21: with several listeners on the one queue, each announcement is
\* delivered to exactly one of them, the one whose get returned it, never to
\* two; and while some listener stays connected and polls, none stays
\* undelivered.
C21_CadaAnuncioAUnOyente ==
    /\ []C21_UnoSolo
    /\ HayOyente =>
          \A k \in 1..MaxAnuncios :
              (Len(encolados) >= k) ~> (Len(quien) >= k)

\* C21 reached: two listeners are connected, two names were announced, and
\* each listener was sent one of them.
C21_UnoCadaUno ==
    /\ \A l \in Oyentes : oyentes[l].estado = "dentro"
    /\ encolados = <<"Ana", "Luz">>
    /\ oyentes[1].recibidos = <<"Luz">>
    /\ oyentes[2].recibidos = <<"Ana">>
    /\ announcement_queue = << >>

\* --------------------------------------------------------------- C22
\* a step that changes what connection l has been sent, or whether its
\* generator runs
C22_Ciclo(l) ==
    (oyentes[l].estado = "dentro" /\ oyentes'[l] # oyentes[l]) =>
        \/ /\ oyentes'[l] = [oyentes[l] EXCEPT !.estado = "fuera"]
           /\ UNCHANGED <<announcement_queue, entregas>>
        \/ /\ oyentes'[l].estado = "dentro"
           /\ announcement_queue # << >> =>
                 /\ oyentes'[l].frame = "data: " \o Head(announcement_queue)
                 /\ oyentes'[l].recibidos =
                        Append(oyentes[l].recibidos, Head(announcement_queue))
                 /\ announcement_queue' = Tail(announcement_queue)
           /\ announcement_queue = << >> =>
                 /\ oyentes'[l].frame = ": keep-alive"
                 /\ oyentes'[l].recibidos = oyentes[l].recibidos
                 /\ UNCHANGED <<announcement_queue, entregas>>

\* C22: a cycle of the stream loop yields one frame, the data frame of the
\* name taken off the queue or, on an empty queue, the keep-alive comment,
\* which takes nothing off the queue; the generator is running after the
\* cycle and can take the next one, and stops only when its connection is
\* closed.
C22_UnFramePorCiclo ==
    /\ [](\A l \in Oyentes : oyentes[l].estado = "dentro" => ENABLED turno(l))
    /\ [][\A l \in Oyentes : C22_Ciclo(l)]_vars

\* C22 reached: a listener was sent a data frame and, a cycle later, a
\* keep-alive, and is still running.
C22_DatoYLuegoKeepAlive ==
    /\ oyentes[2].estado = "dentro"
    /\ oyentes[2].recibidos = <<"Ana">>
    /\ oyentes[2].frame = ": keep-alive"
    /\ oyentes[1].frame = "data: Luz"

\* --------------------------------------------------------------- C27
\* the k-th name put on the queue has been yielded as a data frame by a
\* connection
Emitido(k) ==
    \E l \in Oyentes :
        /\ Len(quien) >= k /\ quien[k] = l
        /\ \E j \in 1..Len(oyentes[l].recibidos) :
              /\ oyentes[l].recibidos[j] = encolados[k]
              /\ Cardinality({i \in 1..k : quien[i] = l}) = j

\* a step that shortens the queue hands the name at its head to a connection
\* as a data frame
C27_SaleEmitido ==
    Len(announcement_queue') < Len(announcement_queue) =>
        /\ announcement_queue' = Tail(announcement_queue)
        /\ \E l \in Oyentes :
              /\ oyentes'[l].frame = "data: " \o Head(announcement_queue)
              /\ oyentes'[l].recibidos =
                     Append(oyentes[l].recibidos, Head(announcement_queue))

\* C27: when some listener stays connected and keeps polling, every name put
\* on the queue is eventually yielded as a data frame by some listener, and
\* no name leaves the queue in any other way.
C27_TodoAnuncioSeEmite ==
    /\ [][C27_SaleEmitido]_vars
    /\ HayOyente =>
          \A k \in 1..MaxAnuncios : (Len(encolados) >= k) ~> Emitido(k)

\* C27 reached: the tablet has disconnected, and the other listener has
\* yielded every name announced.
C27_SigueElOtro ==
    /\ oyentes[1].estado = "fuera"
    /\ oyentes[2].estado = "dentro"
    /\ Len(encolados) = MaxAnuncios
    /\ \A k \in 1..MaxAnuncios : Emitido(k)
    /\ oyentes[2].recibidos # << >>

\* --------------------------------------------------------------- C23
ClavesConfig == {"bloquear_sabados", "bloquear_domingos"} \cup ClavesLimite

Defecto(k) == IF k \in ClavesLimite THEN "999" ELSE "false"

\* G returns the eight keys, each with its stored value or else its default,
\* and exactly the defaults when the read of the table raises
Completa(G(_)) ==
    /\ ClavesConfig \subseteq DOMAIN G({})
    /\ \A k \in ClavesConfig \cap DOMAIN G({}) :
          G({})[k] = IF k \in DOMAIN configuracion THEN configuracion[k]
                     ELSE Defecto(k)
    /\ G({"configuracion"}) = [k \in ClavesConfig |-> Defecto(k)]

\* C23: what get_configuracion returns always holds bloquear_sabados,
\* bloquear_domingos and the six max_pacientes_<dia> keys; a key the store
\* lacks has its default ('false', '999'), a key the store holds has the
\* stored value, and a failed read gives exactly the defaults.  Stated for
\* the get_configuracion of app.py and that of app_v2.py.
C23_ConfiguracionCompleta ==
    Completa(get_configuracion) /\ Completa(get_configuracion_v2)

\* C23 for the get_configuracion of app.py alone.
C23_ConfiguracionCompletaApp == Completa(get_configuracion)

\* C23, where it fails: the store holds the two weekend flags, and the
\* get_configuracion of app_v2.py returns no limit for Monday, where that of
\* app.py returns '999'.
C23_SinLimites ==
    /\ last.op = "configuracion_v2" /\ last.flashes = <<"ok">>
    /\ DOMAIN configuracion = {"bloquear_sabados", "bloquear_domingos"}
    /\ "max_pacientes_lunes" \notin DOMAIN get_configuracion_v2({})
    /\ get_configuracion({})["max_pacientes_lunes"] = "999"

\* --------------------------------------------------------------- C24
\* the stored limit of the weekday of f
LimiteGuardado(f) == configuracion[clave_limite(mapa_dias[weekday(f)])]

DiasConLimite == {f \in Fechas : weekday(f) \in DOMAIN mapa_dias}

\* C24: a date whose weekday has a limit that is not a number is never in
\* what get_dias_llenos returns, whatever its count of citas; and in the same
\* call a date of a weekday whose limit is a number is returned exactly when
\* it holds a cita and its count reaches that limit.
C24_LimiteNoNumerico ==
    LET llenos == ToSet(get_dias_llenos(get_configuracion({}), {}))
    IN \A f \in DiasConLimite :
          IF es_numero(LimiteGuardado(f))
          THEN f \in llenos <=> (conteo(f) > 0 /\ conteo(f) >= int(LimiteGuardado(f)))
          ELSE f \notin llenos

\* C24 reached: Friday's limit is not a number and Friday holds a cita, and
\* the form has shown Saturday, which comes after it and has reached its
\* limit, as the one full date.
C24_SabadoLlenoTrasViernes ==
    /\ last.op = "registrar_cita_GET"
    /\ configuracion["max_pacientes_viernes"] = "abc"
    /\ conteo(1) > 0
    /\ vista.citas = citas
    /\ vista.dias_llenos = <<2>>

\* --------------------------------------------------------------- C25
\* C25: with public bookings alone, interleaved in any way, the citas of a
\* Monday-to-Saturday date are never more than the limit stored for its
\* weekday.
C25_NuncaSobreElCupo ==
    \A f \in DiasConLimite :
        es_numero(LimiteGuardado(f)) => conteo(f) <= int(LimiteGuardado(f))

\* C25, where it fails: the limit of a date is one, two public bookings of
\* the date were both validated before either inserted, and both have
\* inserted.
C25_DosConCupoDeUno ==
    \E f \in DiasConLimite :
        /\ LimiteGuardado(f) = "1"
        /\ conteo(f) = 2
        /\ last.op = "registrar_cita" /\ last.flashes = <<"ok">>
        /\ \A h \in 1..MaxHilos : hilos[h].pc = "libre"

\* --------------------------------------------------------------- C26
\* C26: every name waiting on the announcement queue is the name of a cita
\* whose fue_llamado is true in the store: no endpoint puts a name on the
\* queue without a successful update of the flag before the put.
C26_AnunciadoYaMarcado ==
    \A i \in DOMAIN announcement_queue :
        \E c \in citas : c.nombre = announcement_queue[i] /\ c.fue_llamado

\* C26, where it fails: anunciar_llamada has put a name on the queue, and
\* the one cita of that name has not been marked as called.
C26_AnunciadaSinMarcar ==
    /\ last.op = "anunciar_llamada" /\ last.fin = "200"
    /\ announcement_queue = <<"Ana">>
    /\ \E c \in citas : c.nombre = "Ana"
    /\ \A c \in citas : ~c.fue_llamado

\* --------------------------------------------------------------- C28
\* a request to delete the only admin is refused and deletes nothing
UltimoAdminNoSeElimina ==
    \A u \in 1..MaxUsuarios :
        admins = {u} =>
            LET r == eliminar_usuario_POST("admin", u, {})
            IN r.usuarios = usuarios /\ r.flashes = <<"ultimo_admin">>

\* C28: from a table with an admin, after eliminar_usuario and editar_usuario
\* requests in any order the table still holds a user of role admin, and a
\* request to delete the only admin left is refused before any deletion.
C28_SiempreUnAdmin == admins # {} /\ UltimoAdminNoSeElimina

\* C28 for eliminar_usuario alone: the request to delete the only admin is
\* refused, and no eliminar_usuario request leaves the table without one.
C28_EliminarDejaUnAdmin ==
    /\ []UltimoAdminNoSeElimina
    /\ [][last'.op = "eliminar_usuario" /\ admins # {} => admins' # {}]_vars

\* C28, where it fails: editar_usuario has just changed the role of the only
\* admin, and the table holds a user and no admin.
C28_SinAdmin ==
    /\ last.op = "editar_usuario" /\ last.flashes = <<"ok">>
    /\ admins = {}
    /\ \E u \in 1..MaxUsuarios : HayFila(u)

\* --------------------------------------------------------------- C30
\* a redirect that a session of role rol is answered with leads to a page
\* the same session is shown
RedirectVisible(rol) ==
    \A ruta \in Rutas :
        LET r == ruta_GET(ruta, rol)
        IN r.fin = "redirect" => ruta_GET(r.destino, rol).fin = "pagina"

\* C30: for the role of every stored user and of every logged-in session,
\* whatever its value, a request that role_required rejects is redirected to
\* a page the same session may see, so that following the redirects ends.
C30_RechazoLlevaAPagina ==
    /\ \A u \in 1..MaxUsuarios : HayFila(u) => RedirectVisible(usuarios[u].role)
    /\ navegador.rol # "anon" => RedirectVisible(navegador.rol)

\* C30 for the two roles the decorators name.
C30_AdminYSecretaria == RedirectVisible("admin") /\ RedirectVisible("secretaria")

\* C30, where it fails: a session whose role is neither admin nor secretaria
\* has followed MaxSaltos redirects and is redirected to secretaria_dashboard
\* once more.
C30_BucleDeRedirects ==
    /\ navegador.rol = "doctor"
    /\ navegador.pendiente /\ navegador.saltos = MaxSaltos
    /\ navegador.ruta = "secretaria_dashboard"
    /\ ruta_GET(navegador.ruta, navegador.rol) = Redirect("secretaria_dashboard")

\* --------------------------------------------------------------- C29
\* C29: with the store working, after payments registered and deleted in any
\* order the pagado of a cita is true exactly when some row of pagos names
\* the cita.
C29_PagadoSiiHayPago == \A c \in citas : c.pagado <=> pagos[c.id] > 0

\* C29 for citas that have at most one payment when the request comes.
C29_ConUnPagoPorCita ==
    [][((\A i \in 1..MaxCitas : pagos[i] <= 1) /\ C29_PagadoSiiHayPago)
          => C29_PagadoSiiHayPago']_vars

\* C29, where it fails: a cita had two payments, eliminar_pago has deleted
\* one of them, and the cita is not pagado while a payment row names it.
C29_PagoSinMarca ==
    /\ last.op = "eliminar_pago" /\ last.flashes = <<"ok">>
    /\ \E c \in citas : ~c.pagado /\ pagos[c.id] = 1

====
